---- MODULE Spec2Model ----
(***************************************************************************)
(* ULEB128 encoder / decoder of kstenerud/go-uleb128 (src/uleb.go).        *)
(*                                                                         *)
(* Machine integers are modelled as the SET OF THEIR SET BIT POSITIONS:    *)
(* a uint64 is a subset of 0..63, a big.Word a subset of 0..W-1 where W    *)
(* is the platform word size.  OR is union, AND is intersection, a shift   *)
(* moves the positions and drops what leaves the width.  Bytes and all     *)
(* indices, counters and table entries are plain integers.                 *)
(***************************************************************************)
EXTENDS Integers, Sequences, FiniteSets, TLC

VARIABLES
    arch,         \* platform word size: 32 or 64 (is32Bit / wordSize)
    value,        \* big.Int argument of Encode: its magnitude words, low word first
    uvalue,       \* uint64 argument of EncodeUint64
    preValue,     \* Decode's preValue argument
    preBitCount,  \* Decode's preBitCount argument
    buffer,       \* the caller's byte buffer
    sizeRes,      \* what EncodedSize / EncodedSizeUint64 returned
    encRes,       \* what Encode / EncodeUint64 returned
    decRes,       \* what Decode returned
    pc,           \* position of the caller: "start", "encoded", "decoded", "panic"
    stream,       \* the values a caller writes back to back into one buffer
    offset,       \* where in the buffer that caller's next call starts
    outputs,      \* the results of that caller's Decode calls, in order
    procs,        \* the local variables of each of the concurrently running calls
    tables        \* the package-level shift / group tables the running calls share

streamVars == <<stream, offset, outputs>>
procVars == <<procs, tables>>
vars == <<arch, value, uvalue, preValue, preBitCount, buffer, sizeRes, encRes, decRes, pc,
          stream, offset, outputs, procs, tables>>

----------------------------------------------------------------------------
(* Bounds of the model *)

\* largest bit length of a big.Int handed to Encode
MaxBits == 452
\* largest number of continuation bytes in a buffer handed to Decode directly
MaxCont == 10
\* every bit length up to DenseBits is tried, above it those next to a
\* 16-bit boundary
DenseBits == 70
\* largest number of values written back to back into one buffer
MaxStream == 3
\* number of calls that run interleaved
NumProcs == 2
\* largest number of bytes a canonical encoding is padded with
MaxPad == 20
\* how far below / above the exact encoded size buffer lengths are tried
Slack == 1
\* buffer lengths 0..SmallBuf are always tried
SmallBuf == 1

----------------------------------------------------------------------------
(* Program constants *)

payloadMask == 127
continuationMask == 128
\* the modulus of the step index in encode32 / encode64
ShiftCycle == 15
\* Decode clamps preBitCount to the width of preValue
MaxPreBitCount == 64
\* width of uint64
UintBits == 64
\* "Maximum number of bytes that will ever be written to a buffer"
MaxBufferWriteBytes == 10
\* the most continuation bytes whose payloads fit a uint64 preValue (7 * 9 <= 64)
MaxSplitBytes == 9
\* longest encoding of a value below 2^64
MaxCanonBytes == 10

groupCounts64 == <<4, 5, 4, 5, 4, 5, 5, 4, 5, 4, 5, 4, 5, 5>>
rightShifts64 == <<0, 28, 0, 27, 0, 26, 0, 32, 0, 31, 0, 30, 0, 29>>
groupCounts32 == <<2, 2, 2, 3, 2, 2, 3, 2, 2, 2, 3, 2, 2, 3>>
leftShifts32 == <<0, 0, 4, 0, 1, 0, 5, 0, 2, 0, 6, 0, 3, 0>>
rightShifts32 == <<0, 14, 0, 10, 0, 13, 0, 16, 0, 12, 0, 15, 0, 11>>

----------------------------------------------------------------------------
(* Machine arithmetic on bit sets *)

Min(a, b) == IF a < b THEN a ELSE b
Max(a, b) == IF a < b THEN b ELSE a

\* x << s in a w-bit register
Shl(x, s, w) == {b + s : b \in {c \in x : c + s < w}}
\* x >> s
Shr(x, s) == {b - s : b \in {c \in x : c >= s}}

RECURSIVE Pow2(_)
Pow2(k) == IF k = 0 THEN 1 ELSE 2 * Pow2(k - 1)

RECURSIVE SumPow2(_)
SumPow2(s) == IF s = {} THEN 0
              ELSE LET b == CHOOSE c \in s : TRUE IN Pow2(b) + SumPow2(s \ {b})

\* byte(x): the low 8 bits of a register as a number 0..255
ByteOf(x) == SumPow2(x \cap (0..7))
\* the register value of a byte
BitsOfByte(b) == {k \in 0..7 : (b \div Pow2(k)) % 2 = 1}

\* s[i] of a Go slice: defined for 0 <= i < len(s), a panic otherwise
InRange(s, i) == i >= 0 /\ i < Len(s)
At(s, i) == s[i + 1]

is32Bit(a) == a = 32
wordSize(a) == IF is32Bit(a) THEN 32 ELSE 64
wordMask(a) == wordSize(a) - 1

\* big.Int.BitLen() == 0
isZero(v) == Len(v) = 0

\* the number a word sequence of w-bit words stands for, as a bit set
BitsOfWords(ws, w) == UNION {{(i - 1) * w + b : b \in ws[i]} : i \in 1..Len(ws)}
\* the w-bit words of a number, without leading zero words (nat.norm)
WordsOfBits(s, w) ==
    LET n == IF s = {} THEN 0
             ELSE (CHOOSE m \in s : \A k \in s : k <= m) \div w + 1
    IN [i \in 1..n |-> {b - (i - 1) * w : b \in {c \in s : c \div w = i - 1}}]

RECURSIVE norm(_)
norm(ws) == IF Len(ws) > 0 /\ ws[Len(ws)] = {} THEN norm(SubSeq(ws, 1, Len(ws) - 1)) ELSE ws

----------------------------------------------------------------------------
(* EncodedSize, src/uleb.go:374-388 *)

RECURSIVE CountGroups(_, _)
CountGroups(highWord, groupCount) ==
    IF highWord # {} THEN CountGroups(Shr(highWord, 7), groupCount + 1) ELSE groupCount

\* mutant: the group holding the lowest bits of the high word is not counted
EncodedSize_missingGroup(a, v) ==
    IF isZero(v) THEN 1
    ELSE LET bits == (Len(v) - 1) * wordSize(a)
             bitOffset == 7 - (bits % 7)
         IN CountGroups(Shr(v[Len(v)], bitOffset), bits \div 7)

EncodedSize(a, v) ==
    IF isZero(v) THEN 1
    ELSE LET bits == (Len(v) - 1) * wordSize(a)
             bitOffset == 7 - (bits % 7)
         IN CountGroups(Shr(v[Len(v)], bitOffset), bits \div 7 + 1)

(* EncodedSizeUint64, src/uleb.go:391-401 *)
\* mutant: no special case for zero
EncodedSizeUint64_noZeroCase(v) == CountGroups(v, 0)

EncodedSizeUint64(v) == IF v = {} THEN 1 ELSE CountGroups(v, 0)

----------------------------------------------------------------------------
(* Results *)

\* a nil *big.Int
NilBig == [isNil |-> TRUE, abs |-> <<>>]
\* big.NewInt(0).SetBits(words): the words are normalised
SetBits(ws) == [isNil |-> FALSE, abs |-> norm(ws)]

EncResult(byteCount, ok, panicked, buf) ==
    [byteCount |-> byteCount, ok |-> ok, panicked |-> panicked, buffer |-> buf]
DecResult(asUint, asBigInt, byteCount, ok) ==
    [asUint |-> asUint, asBigInt |-> asBigInt, byteCount |-> byteCount, ok |-> ok]

NoEnc == EncResult(0, FALSE, FALSE, <<>>)
NoDec == DecResult({}, NilBig, 0, FALSE)

----------------------------------------------------------------------------
(* Bytes of the wire format *)

\* mutant: the payload is masked with 0x3f
groupByte_mask6(accum) == ByteOf((accum \cap (0 .. 5)) \cup BitsOfByte(continuationMask))

\* byte(accum & payloadMask) | continuationMask
groupByte(accum) == ByteOf((accum \cap BitsOfByte(payloadMask)) \cup BitsOfByte(continuationMask))
\* mutant: the flag of the last byte is left set
clearContinuation_none(b) == b

\* b &= payloadMask
clearContinuation(b) == ByteOf(BitsOfByte(b) \cap BitsOfByte(payloadMask))
\* mutant: the continuation flag is not masked off
payloadOf_keepsFlag(b) == BitsOfByte(b)

\* b & payloadMask, as a register
payloadOf(b) == BitsOfByte(b) \cap BitsOfByte(payloadMask)
\* mutant: the flag is looked for in bit 6
hasContinuation_bit6(b) == 6 \in BitsOfByte(b)

\* b & continuationMask == continuationMask
hasContinuation(b) == BitsOfByte(continuationMask) \subseteq BitsOfByte(b)

----------------------------------------------------------------------------
(* EncodeUint64, src/uleb.go:417-441 *)

\* mutant: the capacity test is off by one (index > len(buffer)), so the
\* store at index = len(buffer) is reached and panics
RECURSIVE uintLoop_offByOne(_, _, _)
uintLoop_offByOne(v, index, buf) ==
    IF v # {}
    THEN IF index > Len(buf)
         THEN EncResult(0, FALSE, FALSE, buf)
         ELSE IF ~InRange(buf, index) THEN EncResult(0, FALSE, TRUE, buf)
         ELSE uintLoop_offByOne(Shr(v, 7), index + 1, [buf EXCEPT ![index + 1] = groupByte(v)])
    ELSE EncResult(index, TRUE, FALSE, [buf EXCEPT ![index] = clearContinuation(buf[index])])

\* for value != 0 { ... } and the statements after it
RECURSIVE uintLoop(_, _, _)
uintLoop(v, index, buf) ==
    IF v # {}
    THEN IF index >= Len(buf)
         THEN EncResult(0, FALSE, FALSE, buf)
         ELSE uintLoop(Shr(v, 7), index + 1, [buf EXCEPT ![index + 1] = groupByte(v)])
    ELSE EncResult(index, TRUE, FALSE, [buf EXCEPT ![index] = clearContinuation(buf[index])])

EncodeUint64(v, buf) ==
    IF v = {}
    THEN IF Len(buf) = 0
         THEN EncResult(0, FALSE, FALSE, buf)
         ELSE EncResult(1, TRUE, FALSE, [buf EXCEPT ![1] = 0])
    ELSE uintLoop(v, 0, buf)

----------------------------------------------------------------------------
(* encode32 / encode64, src/uleb.go:541-645 and 647-752.                   *)
(* The two functions differ only in the width of the halves and in their   *)
(* tables; encodeWords is their common body, run on the state              *)
(*   [buffer, bufferPos, accum, shiftIndex, status, byteCount]             *)
(* with status "run" while the function is executing, "done" after a       *)
(* return with ok = true, "full" after a return caused by                  *)
(* bufferPos >= len(buffer), and "panic" after an index out of range.      *)

lowMask(a) == 0 .. (wordSize(a) \div 2 - 1)
\* mutant: the high half is not masked out of the word
highMask_wholeWord(a) == 0 .. (wordSize(a) - 1)
highMask(a) == (wordSize(a) \div 2) .. (wordSize(a) - 1)

groupCounts(a) == IF is32Bit(a) THEN groupCounts32 ELSE groupCounts64
\* mutant: the two builds' shift tables are taken for each other
rightShifts_otherBuild(a) == IF is32Bit(a) THEN rightShifts64 ELSE rightShifts32
rightShifts(a) == IF is32Bit(a) THEN rightShifts32 ELSE rightShifts64

\* shiftIndex = (shiftIndex + 1) % 15
nextShiftIndex(shiftIndex) == (shiftIndex + 1) % ShiftCycle

EncState(buf) ==
    [buffer |-> buf, bufferPos |-> 0, accum |-> {}, shiftIndex |-> 0,
     status |-> "run", byteCount |-> 0]

\* one pass of the body of a flush loop: store the group, shift, advance
\* (a store outside the slice is Go's index-out-of-range panic)
emitGroup(st) ==
    IF ~InRange(st.buffer, st.bufferPos) THEN [st EXCEPT !.status = "panic"]
    ELSE [st EXCEPT !.buffer[st.bufferPos + 1] = groupByte(st.accum),
                    !.accum = Shr(st.accum, 7),
                    !.bufferPos = st.bufferPos + 1]

\* mutant: the flag is also cleared in the byte after the last one written
finishEncode_clearsNext(st) ==
    LET last == [st EXCEPT !.buffer[st.bufferPos] = clearContinuation(st.buffer[st.bufferPos]),
                           !.bufferPos = st.bufferPos - 1,
                           !.byteCount = st.bufferPos,
                           !.status = "done"]
    IN IF st.bufferPos < Len(st.buffer)
       THEN [last EXCEPT !.buffer[st.bufferPos + 1] = clearContinuation(st.buffer[st.bufferPos + 1])]
       ELSE last

\* the return inside the last word's loops: clear the flag of the byte just
\* written (bufferPos has not been advanced in the code: it is the byte at
\* bufferPos - 1 of the state emitGroup produced) and report its index + 1
finishEncode(st) ==
    [st EXCEPT !.buffer[st.bufferPos] = clearContinuation(st.buffer[st.bufferPos]),
               !.bufferPos = st.bufferPos - 1,
               !.byteCount = st.bufferPos,
               !.status = "done"]

\* mutant: on a full buffer the flag of the last byte written is cleared
RECURSIVE FlushGroups_terminatesOnFull(_, _, _)
FlushGroups_terminatesOnFull(st, j, groupCount) ==
    IF j >= groupCount \/ st.status # "run" THEN st
    ELSE IF st.bufferPos >= Len(st.buffer)
    THEN [st EXCEPT !.status = "full",
                    !.buffer = IF st.bufferPos = 0 THEN st.buffer
                               ELSE [st.buffer EXCEPT ![st.bufferPos] = clearContinuation(@)]]
    ELSE FlushGroups_terminatesOnFull(emitGroup(st), j + 1, groupCount)

\* for j := 0; j < groupCount; j++ { ... }  of a word that is not the last
RECURSIVE FlushGroups(_, _, _)
FlushGroups(st, j, groupCount) ==
    IF j >= groupCount \/ st.status # "run" THEN st
    ELSE IF st.bufferPos >= Len(st.buffer) THEN [st EXCEPT !.status = "full"]
    ELSE FlushGroups(emitGroup(st), j + 1, groupCount)

\* mutant: the low-half loop of the last word never returns early
RECURSIVE FlushLastLow_noEarlyReturn(_, _, _, _)
FlushLastLow_noEarlyReturn(st, j, groupCount, srcWordHigh) ==
    IF j >= groupCount THEN st
    ELSE IF st.bufferPos >= Len(st.buffer) THEN [st EXCEPT !.status = "full"]
    ELSE FlushLastLow_noEarlyReturn(emitGroup(st), j + 1, groupCount, srcWordHigh)

\* the loop over the low half of the last word
RECURSIVE FlushLastLow(_, _, _, _)
FlushLastLow(st, j, groupCount, srcWordHigh) ==
    IF j >= groupCount THEN st
    ELSE IF st.bufferPos >= Len(st.buffer) THEN [st EXCEPT !.status = "full"]
    ELSE LET st1 == emitGroup(st)
         IN IF st1.status # "run" THEN st1
            ELSE IF st1.accum = {} /\ srcWordHigh = {}
            THEN finishEncode(st1)
            ELSE FlushLastLow(st1, j + 1, groupCount, srcWordHigh)

\* the unbounded loop over the high half of the last word
RECURSIVE FlushLastHigh(_)
FlushLastHigh(st) ==
    IF st.bufferPos >= Len(st.buffer) THEN [st EXCEPT !.status = "full"]
    ELSE LET st1 == emitGroup(st)
         IN IF st1.status # "run" THEN st1
            ELSE IF st1.accum = {} THEN finishEncode(st1) ELSE FlushLastHigh(st1)

\* "Low .. bits": shift the low half above the leftover bits and flush
lowHalf(a, st, srcWord, isLast) ==
    IF is32Bit(a) /\ ~InRange(leftShifts32, st.shiftIndex)
    THEN [st EXCEPT !.status = "panic"]
    ELSE LET shift == IF is32Bit(a) THEN At(leftShifts32, st.shiftIndex)
                      ELSE st.shiftIndex \div 2
             st1 == [st EXCEPT !.accum = st.accum \cup
                                   Shl(srcWord \cap lowMask(a), shift, wordSize(a))]
         IN IF ~InRange(groupCounts(a), st.shiftIndex)
            THEN [st1 EXCEPT !.status = "panic"]
            ELSE IF isLast
                 THEN FlushLastLow(st1, 0, At(groupCounts(a), st.shiftIndex),
                                   srcWord \cap highMask(a))
                 ELSE FlushGroups(st1, 0, At(groupCounts(a), st.shiftIndex))

\* "High .. bits": shift the high half down onto the leftover bits and flush
highHalf(a, st, srcWord, isLast) ==
    IF ~InRange(rightShifts(a), st.shiftIndex)
    THEN [st EXCEPT !.status = "panic"]
    ELSE LET shift == At(rightShifts(a), st.shiftIndex)
             st1 == [st EXCEPT !.accum = st.accum \cup Shr(srcWord \cap highMask(a), shift)]
         IN IF ~InRange(groupCounts(a), st.shiftIndex)
            THEN [st1 EXCEPT !.status = "panic"]
            ELSE IF isLast
                 THEN FlushLastHigh(st1)
                 ELSE FlushGroups(st1, 0, At(groupCounts(a), st.shiftIndex))

advance(st) ==
    IF st.status = "run" THEN [st EXCEPT !.shiftIndex = nextShiftIndex(st.shiftIndex)] ELSE st

\* one source word: low half, step, high half, step (the last word returns
\* from inside one of its loops and never reaches the second step)
encodeWord(a, st, srcWord, isLast) ==
    LET st1 == advance(lowHalf(a, st, srcWord, isLast))
    IN IF st1.status # "run" THEN st1
       ELSE advance(highHalf(a, st1, srcWord, isLast))

RECURSIVE encodeFrom(_, _, _, _)
encodeFrom(a, words, st, i) ==
    IF st.status # "run" \/ i > Len(words) THEN st
    ELSE encodeFrom(a, words, encodeWord(a, st, words[i], i = Len(words)), i + 1)

encodeWords(a, v, buf) ==
    IF isZero(v)
    THEN IF Len(buf) = 0
         THEN EncResult(0, FALSE, FALSE, buf)
         ELSE EncResult(1, TRUE, FALSE, [buf EXCEPT ![1] = 0])
    ELSE LET st == encodeFrom(a, v, EncState(buf), 1)
         IN EncResult(st.byteCount, st.status = "done", st.status = "panic", st.buffer)

encode32(a, v, buf) ==
    IF ~is32Bit(a) THEN EncResult(0, FALSE, FALSE, buf) ELSE encodeWords(a, v, buf)

encode64(a, v, buf) ==
    IF is32Bit(a) THEN EncResult(0, FALSE, FALSE, buf) ELSE encodeWords(a, v, buf)

(* Encode, src/uleb.go:406-413 *)
Encode(a, v, buf) == IF is32Bit(a) THEN encode32(a, v, buf) ELSE encode64(a, v, buf)

----------------------------------------------------------------------------
(* Decode, src/uleb.go:454-535 *)

\* mutant: preValue is not masked
maskForBitCount_none(bitCount) == 0 .. (UintBits - 1)

\* ^(^uint64(0) << uint(bitCount)), for 0 <= bitCount: a shift by 64 or more
\* leaves 0, so the mask is then all of the 64 bits
maskForBitCount(bitCount) == 0 .. (Min(bitCount, UintBits) - 1)

\* big.Word(x) of a uint64 x: the low wordSize bits
toWord(a, x) == x \cap (0 .. wordSize(a) - 1)

\* mutant: the seed is not shifted down after a word is taken from it
RECURSIVE seedWords_noShift(_, _, _, _)
seedWords_noShift(a, words, pv, pbc) ==
    IF pbc >= wordSize(a)
    THEN seedWords_noShift(a, Append(words, toWord(a, pv)), pv, pbc - wordSize(a))
    ELSE [words |-> words, preValue |-> pv, preBitCount |-> pbc]

\* for preBitCount >= wordSize() { words = append(...); preValue >>= ...; ... }
RECURSIVE seedWords(_, _, _, _)
seedWords(a, words, pv, pbc) ==
    IF pbc >= wordSize(a)
    THEN seedWords(a, Append(words, toWord(a, pv)), Shr(pv, wordSize(a)), pbc - wordSize(a))
    ELSE [words |-> words, preValue |-> pv, preBitCount |-> pbc]

\* mutant: byteCount is the index of the terminator, not the count of bytes
decodeFinish_countsIndex(a, index, words, word) ==
    IF Len(words) = 0
    THEN DecResult(word, NilBig, index, TRUE)
    ELSE LET ws == IF word # {} THEN Append(words, word) ELSE words
         IN IF is32Bit(a) /\ Len(ws) = 1 THEN DecResult(ws[1], NilBig, index, TRUE)
            ELSE IF is32Bit(a) /\ Len(ws) = 2
                 THEN DecResult(Shl(ws[2], 32, UintBits) \cup ws[1], NilBig, index, TRUE)
            ELSE IF ~is32Bit(a) /\ Len(ws) = 1 THEN DecResult(ws[1], NilBig, index, TRUE)
            ELSE DecResult({}, SetBits(ws), index, TRUE)

\* the body of "if b&continuationMask != continuationMask { ... }"
decodeFinish(a, index, words, word) ==
    IF Len(words) = 0
    THEN DecResult(word, NilBig, index + 1, TRUE)
    ELSE LET ws == IF word # {} THEN Append(words, word) ELSE words
         IN IF is32Bit(a) /\ Len(ws) = 1 THEN DecResult(ws[1], NilBig, index + 1, TRUE)
            ELSE IF is32Bit(a) /\ Len(ws) = 2
                 THEN DecResult(Shl(ws[2], 32, UintBits) \cup ws[1], NilBig, index + 1, TRUE)
            ELSE IF ~is32Bit(a) /\ Len(ws) = 1 THEN DecResult(ws[1], NilBig, index + 1, TRUE)
            ELSE DecResult({}, SetBits(ws), index + 1, TRUE)

\* mutant: an exhausted buffer reports the bytes it looked at
RECURSIVE decodeLoop_countsOnFailure(_, _, _, _, _, _)
decodeLoop_countsOnFailure(a, buf, index, words, word, bitIndex) ==
    IF index >= Len(buf) THEN DecResult({}, NilBig, index, FALSE)
    ELSE LET b == buf[index + 1]
             word1 == word \cup Shl(payloadOf(b), bitIndex, wordSize(a))
             bitIndex1 == bitIndex + 7
             carry == bitIndex1 >= wordSize(a)
             words2 == IF carry THEN Append(words, word1) ELSE words
             bitIndex2 == IF carry THEN bitIndex1 % (wordMask(a) + 1) ELSE bitIndex1
             word2 == IF carry THEN Shr(payloadOf(b), 7 - bitIndex2) ELSE word1
         IN IF ~hasContinuation(b)
            THEN decodeFinish(a, index, words2, word2)
            ELSE decodeLoop_countsOnFailure(a, buf, index + 1, words2, word2, bitIndex2)

\* mutant: a strict decoder, which rejects a final zero group after the first byte
RECURSIVE decodeLoop_strict(_, _, _, _, _, _)
decodeLoop_strict(a, buf, index, words, word, bitIndex) ==
    IF index >= Len(buf) THEN DecResult({}, NilBig, 0, FALSE)
    ELSE LET b == buf[index + 1]
             word1 == word \cup Shl(payloadOf(b), bitIndex, wordSize(a))
             bitIndex1 == bitIndex + 7
             carry == bitIndex1 >= wordSize(a)
             words2 == IF carry THEN Append(words, word1) ELSE words
             bitIndex2 == IF carry THEN bitIndex1 % (wordMask(a) + 1) ELSE bitIndex1
             word2 == IF carry THEN Shr(payloadOf(b), 7 - bitIndex2) ELSE word1
         IN IF b = 0 /\ index > 0 THEN DecResult({}, NilBig, 0, FALSE)
            ELSE IF ~hasContinuation(b)
            THEN decodeFinish(a, index, words2, word2)
            ELSE decodeLoop_strict(a, buf, index + 1, words2, word2, bitIndex2)

\* for index := 0; index < len(buffer); index++ { ... }
RECURSIVE decodeLoop(_, _, _, _, _, _)
decodeLoop(a, buf, index, words, word, bitIndex) ==
    IF index >= Len(buf) THEN DecResult({}, NilBig, 0, FALSE)
    ELSE LET b == buf[index + 1]
             word1 == word \cup Shl(payloadOf(b), bitIndex, wordSize(a))
             bitIndex1 == bitIndex + 7
             carry == bitIndex1 >= wordSize(a)
             words2 == IF carry THEN Append(words, word1) ELSE words
             bitIndex2 == IF carry THEN bitIndex1 % (wordMask(a) + 1) ELSE bitIndex1
             word2 == IF carry THEN Shr(payloadOf(b), 7 - bitIndex2) ELSE word1
         IN IF ~hasContinuation(b)
            THEN decodeFinish(a, index, words2, word2)
            ELSE decodeLoop(a, buf, index + 1, words2, word2, bitIndex2)

\* mutant: an empty buffer returns the zero value, not the masked preValue
Decode_emptyDropsSeed(a, pv0, pbc0, buf) ==
    LET pbc == IF pbc0 > MaxPreBitCount THEN MaxPreBitCount ELSE pbc0
        pv == pv0 \cap maskForBitCount(pbc)
    IN IF Len(buf) = 0 THEN DecResult({}, NilBig, 0, FALSE)
       ELSE IF buf[1] = 0 THEN DecResult(pv, NilBig, 1, TRUE)
       ELSE IF buf[1] < 128 /\ pbc <= 57
            THEN DecResult(Shl(BitsOfByte(buf[1]), pbc, UintBits) \cup pv, NilBig, 1, TRUE)
       ELSE LET seed == seedWords(a, <<>>, pv, pbc)
            IN decodeLoop(a, buf, 0, seed.words, toWord(a, seed.preValue), seed.preBitCount)

Decode(a, pv0, pbc0, buf) ==
    LET pbc == IF pbc0 > MaxPreBitCount THEN MaxPreBitCount ELSE pbc0
        pv == pv0 \cap maskForBitCount(pbc)
    IN IF Len(buf) = 0 THEN DecResult(pv, NilBig, 0, FALSE)
       ELSE IF buf[1] = 0 THEN DecResult(pv, NilBig, 1, TRUE)
       ELSE IF buf[1] < 128 /\ pbc <= 57
            THEN DecResult(Shl(BitsOfByte(buf[1]), pbc, UintBits) \cup pv, NilBig, 1, TRUE)
       ELSE LET seed == seedWords(a, <<>>, pv, pbc)
            IN decodeLoop(a, buf, 0, seed.words, toWord(a, seed.preValue), seed.preBitCount)

----------------------------------------------------------------------------
(* Inputs *)

Archs == {32, 64}

\* numbers of bit length len: a lone top bit, all ones, every other bit
PatternNames == {"top", "ones", "alt"}
Pattern(name, len) ==
    IF len = 0 THEN {}
    ELSE IF name = "top" THEN {len - 1}
    ELSE IF name = "ones" THEN 0 .. (len - 1)
    ELSE {b \in 0 .. (len - 1) : (len - 1 - b) % 2 = 0}

BitLens == {len \in 0 .. MaxBits : len <= DenseBits \/ len % 16 \in {0, 1}}
BigValues == {Pattern(name, len) : name \in PatternNames, len \in BitLens}
UintValues == {Pattern(name, len) : name \in PatternNames, len \in 0 .. UintBits}

\* buffer contents before a call: make() zeroes, a reused buffer holds anything
FillBytes == {0, 255}
Filled(n, fill) == [i \in 1 .. n |-> fill]

\* the buffer lengths tried for a value whose encoded size is size
BufLens(size) == {n \in 0 .. (size + Slack) : n <= SmallBuf \/ n >= size - Slack}

\* buffers handed to Decode directly: count continuation bytes, then
\* (optionally) a terminator
ContBytes == {128, 255}
TermBytes == {0, 1, 127}
PreValues == {{}, 0 .. (UintBits - 1), {b \in 0 .. (UintBits - 1) : b % 2 = 0}}
TerminatedBuffers ==
    {Filled(k, c) \o <<t>> : k \in 0 .. MaxCont, c \in ContBytes, t \in TermBytes}
DecBuffers ==
    {Filled(k, c) : k \in 0 .. MaxCont, c \in ContBytes} \cup TerminatedBuffers
\* bytes that follow a terminator
Trailers == {<<255>>, <<1, 0>>}

----------------------------------------------------------------------------
(* The callers.  pc is the caller's position:                              *)
(*   "start"   a big.Int is at hand       "ustart"  a uint64 is at hand    *)
(*   "sized"   the size is known          "ready"   the buffer is made     *)
(*   "encoded" the encoder returned       "panic"   the encoder panicked   *)
(*   "seeded"  a buffer and a seed are at hand for Decode                  *)
(*   "decoded" Decode returned                                             *)

\* the package-level tables, as every call finds them
PackageTables ==
    [groupCounts64 |-> groupCounts64, rightShifts64 |-> rightShifts64,
     groupCounts32 |-> groupCounts32, leftShifts32 |-> leftShifts32,
     rightShifts32 |-> rightShifts32]

NoStream == stream = <<>> /\ offset = 0 /\ outputs = <<>>
NoProcs == procs = <<>> /\ tables = PackageTables

InitCommon ==
    /\ arch \in Archs
    /\ sizeRes = 0
    /\ encRes = NoEnc
    /\ decRes = NoDec
    /\ NoStream
    /\ NoProcs

InitBig ==
    /\ InitCommon
    /\ \E bits \in BigValues : value = WordsOfBits(bits, wordSize(arch))
    /\ uvalue = {}
    /\ preValue = {} /\ preBitCount = 0
    /\ buffer = <<>>
    /\ pc = "start"

InitUint ==
    /\ InitCommon
    /\ value = <<>>
    /\ uvalue \in UintValues
    /\ preValue = {} /\ preBitCount = 0
    /\ buffer = <<>>
    /\ pc = "ustart"

InitDecode ==
    /\ InitCommon
    /\ value = <<>>
    /\ uvalue = {}
    /\ preValue \in PreValues
    /\ preBitCount \in 0 .. MaxPreBitCount
    /\ buffer \in DecBuffers
    /\ pc = "seeded"

\* a terminated buffer followed by whatever the source delivered after it
InitTrailing ==
    /\ InitCommon
    /\ value = <<>>
    /\ uvalue = {}
    /\ preValue \in {{}, 0 .. (UintBits - 1)}
    /\ preBitCount \in 0 .. MaxPreBitCount
    /\ \E b \in TerminatedBuffers, t \in Trailers : buffer = b \o t
    /\ pc = "seeded"

\* sum over i < n of (buf[i] & 0x7f) << (shift + 7*i): the payloads are below
\* 2^7, so the terms occupy disjoint bit ranges and the sum is their union
PayloadSum(buf, n, shift) ==
    UNION {{shift + 7 * (i - 1) + k : k \in {c \in 0 .. 6 : (buf[i] \div Pow2(c)) % 2 = 1}}
           : i \in 1 .. n}

\* values of every bit length up to DenseBits, to be encoded and then padded
InitPad ==
    /\ InitBig
    /\ BitsOfWords(value, wordSize(arch)) \subseteq 0 .. (DenseBits - 1)

\* first chunks: k bytes with the continuation flag, all payload bits clear,
\* all set, or a different payload in every byte
FirstChunks ==
    {Filled(k, c) : k \in 0 .. MaxSplitBytes, c \in ContBytes}
    \cup {[i \in 1 .. k |-> 128 + i] : k \in 0 .. MaxSplitBytes}

\* the bytes of one value arrive in two reads: buffer[:offset], buffer[offset:]
InitSplice ==
    /\ arch \in Archs
    /\ sizeRes = 0 /\ encRes = NoEnc /\ decRes = NoDec
    /\ value = <<>> /\ uvalue = {}
    /\ preValue = {} /\ preBitCount = 0
    /\ \E A \in FirstChunks, R \in TerminatedBuffers :
          buffer = A \o R /\ offset = Len(A)
    /\ stream = <<>> /\ outputs = <<>>
    /\ NoProcs
    /\ pc = "chunk1"

\* Decode(0, 0, A) on the first chunk alone
FirstRead ==
    /\ pc = "chunk1"
    /\ decRes' = Decode(arch, {}, 0, SubSeq(buffer, 1, offset))
    /\ outputs' = <<decRes'>>
    /\ pc' = IF decRes'.ok THEN "whole" ELSE "short"
    /\ UNCHANGED <<procVars, arch, value, uvalue, preValue, preBitCount, buffer, sizeRes,
                   encRes, stream, offset>>

\* the caller carries the payloads of the first chunk over as preValue and
\* preBitCount and calls Decode on the second chunk
Retry ==
    /\ pc = "short"
    /\ preValue' = PayloadSum(buffer, offset, 0)
    /\ preBitCount' = 7 * offset
    /\ decRes' = Decode(arch, preValue', preBitCount', SubSeq(buffer, offset + 1, Len(buffer)))
    /\ outputs' = Append(outputs, decRes')
    /\ pc' = "spliced"
    /\ UNCHANGED <<procVars, arch, value, uvalue, buffer, sizeRes, encRes, stream, offset>>

\* Decode(0, 0, A followed by R), for comparison
OneShot ==
    /\ pc = "spliced"
    /\ decRes' = Decode(arch, {}, 0, buffer)
    /\ outputs' = Append(outputs, decRes')
    /\ pc' = "compared"
    /\ UNCHANGED <<procVars, arch, value, uvalue, preValue, preBitCount, buffer, sizeRes,
                   encRes, stream, offset>>

\* the values of a stream: a number and the encoder it is written with
StreamBits == {{}, 0 .. 6, {7}, 0 .. (UintBits - 1), {UintBits}}
StreamItems ==
    {[big |-> TRUE, bits |-> b] : b \in StreamBits}
    \cup {[big |-> FALSE, bits |-> b] : b \in {{}, {7}, 0 .. (UintBits - 1)}}

RECURSIVE Streams(_)
Streams(n) ==
    IF n = 0 THEN {<<>>}
    ELSE LET shorter == Streams(n - 1)
         IN shorter \cup {Append(st, it) : st \in {x \in shorter : Len(x) = n - 1},
                                            it \in StreamItems}

InitStream ==
    /\ arch \in Archs
    /\ sizeRes = 0 /\ encRes = NoEnc /\ decRes = NoDec
    /\ value = <<>> /\ uvalue = {}
    /\ preValue = {} /\ preBitCount = 0
    /\ buffer = <<>>
    /\ stream \in Streams(MaxStream) \ {<<>>}
    /\ offset = 0
    /\ outputs = <<>>
    /\ NoProcs
    /\ pc = "wstart"

\* the size of one stream item, by the size function of its encoder
itemSize(a, it) ==
    IF it.big THEN EncodedSize(a, WordsOfBits(it.bits, wordSize(a)))
    ELSE EncodedSizeUint64(it.bits)

RECURSIVE totalSize(_, _, _)
totalSize(a, st, i) == IF i > Len(st) THEN 0 ELSE itemSize(a, st[i]) + totalSize(a, st, i + 1)

\* Encode(item, buffer[pos:]) for one item after the other, each starting
\* where the previous one ended; stops at the first call that is not ok
RECURSIVE writeItems(_, _, _, _, _)
writeItems(a, st, i, buf, pos) ==
    IF i > Len(st) THEN [buffer |-> buf, offset |-> pos, ok |-> TRUE]
    ELSE LET rest == SubSeq(buf, pos + 1, Len(buf))
             r == IF st[i].big THEN Encode(a, WordsOfBits(st[i].bits, wordSize(a)), rest)
                  ELSE EncodeUint64(st[i].bits, rest)
             buf1 == SubSeq(buf, 1, pos) \o r.buffer
         IN IF ~r.ok THEN [buffer |-> buf1, offset |-> pos, ok |-> FALSE]
            ELSE writeItems(a, st, i + 1, buf1, pos + r.byteCount)

\* the writer: one buffer for the whole stream, the items encoded back to back
StreamWrite ==
    /\ pc = "wstart"
    /\ LET w == writeItems(arch, stream, 1, Filled(totalSize(arch, stream, 1), 0), 0)
       IN /\ buffer' = w.buffer
          /\ sizeRes' = w.offset
          /\ pc' = IF w.ok THEN "reading" ELSE "wfailed"
    /\ offset' = 0
    /\ UNCHANGED <<procVars, arch, value, uvalue, preValue, preBitCount, encRes, decRes,
                   stream, outputs>>

\* the reader: Decode(0, 0, buffer[offset:]), then advance by byteCount
StreamDecode ==
    /\ pc = "reading"
    /\ offset < Len(buffer)
    /\ LET r == Decode(arch, {}, 0, SubSeq(buffer, offset + 1, Len(buffer)))
       IN /\ decRes' = r
          /\ outputs' = Append(outputs, r)
          /\ offset' = offset + r.byteCount
          /\ pc' = IF r.ok THEN "reading" ELSE "rfailed"
    /\ UNCHANGED <<procVars, arch, value, uvalue, preValue, preBitCount, buffer, sizeRes,
                   encRes, stream>>

\* expectedByteCount := EncodedSize(expectedBigInt)
SizeCall ==
    /\ pc = "start"
    /\ sizeRes' = EncodedSize(arch, value)
    /\ pc' = "sized"
    /\ UNCHANGED <<streamVars, procVars, arch, value, uvalue, preValue, preBitCount, buffer, encRes, decRes>>

\* expectedByteCount := EncodedSizeUint64(value)
SizeUint64Call ==
    /\ pc = "ustart"
    /\ sizeRes' = EncodedSizeUint64(uvalue)
    /\ pc' = "usized"
    /\ UNCHANGED <<streamVars, procVars, arch, value, uvalue, preValue, preBitCount, buffer, encRes, decRes>>

\* the caller provides the buffer
MakeBuffer ==
    /\ pc \in {"sized", "usized"}
    /\ \E n \in BufLens(sizeRes), fill \in FillBytes : buffer' = Filled(n, fill)
    /\ pc' = IF pc = "sized" THEN "ready" ELSE "uready"
    /\ UNCHANGED <<streamVars, procVars, arch, value, uvalue, preValue, preBitCount, sizeRes, encRes, decRes>>

\* byteCount, ok := Encode(value, buffer)
EncodeCall ==
    /\ pc = "ready"
    /\ LET r == Encode(arch, value, buffer)
       IN /\ encRes' = r
          /\ buffer' = r.buffer
          /\ pc' = IF r.panicked THEN "panic" ELSE "encoded"
    /\ UNCHANGED <<streamVars, procVars, arch, value, uvalue, preValue, preBitCount, sizeRes, decRes>>

\* byteCount, ok := EncodeUint64(value, buffer)
EncodeUint64Call ==
    /\ pc = "uready"
    /\ LET r == EncodeUint64(uvalue, buffer)
       IN /\ encRes' = r
          /\ buffer' = r.buffer
          /\ pc' = "uencoded"
    /\ UNCHANGED <<streamVars, procVars, arch, value, uvalue, preValue, preBitCount, sizeRes, decRes>>

\* asUint, asBigInt, byteCount, ok := Decode(preValue, preBitCount, buffer)
DecodeCall ==
    /\ pc \in {"encoded", "uencoded", "seeded", "padded"}
    /\ decRes' = Decode(arch, preValue, preBitCount, buffer)
    /\ pc' = IF pc = "encoded" THEN "decoded"
             ELSE IF pc = "uencoded" THEN "udecoded"
             ELSE IF pc = "padded" THEN "pdecoded" ELSE "sdecoded"
    /\ UNCHANGED <<streamVars, procVars, arch, value, uvalue, preValue, preBitCount, buffer, sizeRes, encRes>>

\* a sender that pads: the canonical encoding gets the continuation flag on its
\* last byte, then m - 1 bytes 0x80 and one byte 0x00
PadCall ==
    /\ pc = "encoded"
    /\ encRes.ok /\ encRes.byteCount = Len(buffer) /\ Len(buffer) = sizeRes
    /\ \E m \in 1 .. MaxPad :
          buffer' = [buffer EXCEPT ![Len(buffer)] = IF @ < 128 THEN @ + 128 ELSE @]
                       \o Filled(m - 1, 128) \o <<0>>
    /\ pc' = "padded"
    /\ UNCHANGED <<streamVars, procVars, arch, value, uvalue, preValue, preBitCount, sizeRes,
                   encRes, decRes>>

\* the bits of a number below 2^31, moved up by shift
BitsOfNat(n, shift) == {shift + k : k \in {c \in 0 .. 30 : (n \div Pow2(c)) % 2 = 1}}

\* a uint64 literal, written as its four 16-bit digits, highest first
Hex64(d3, d2, d1, d0) ==
    BitsOfNat(d3, 48) \cup BitsOfNat(d2, 32) \cup BitsOfNat(d1, 16) \cup BitsOfNat(d0, 0)

\* a []uint64 literal of the tests, lowest word first
Words64(ws) == UNION {{64 * (i - 1) + b : b \in ws[i]} : i \in 1 .. Len(ws)}

Vec(bits, bytes) == [bits |-> bits, bytes |-> bytes]

\* rows of the tests' tables and the README's example
Vectors ==
    LET x0123 == Hex64(291, 17767, 35243, 52719)
        xffff == 0 .. 63
    IN {Vec({}, <<0>>),
        Vec({0}, <<1>>),
        Vec({1}, <<2>>),
        Vec(0 .. 6, <<127>>),
        Vec({7}, <<128, 1>>),
        Vec({0, 7}, <<129, 1>>),
        Vec(BitsOfNat(104543565, 0), <<205, 234, 236, 49>>),
        Vec(x0123, <<239, 155, 175, 205, 248, 172, 209, 145, 1>>),
        Vec(Hex64(65244, 47768, 30292, 12816),
            <<144, 228, 208, 178, 135, 211, 174, 238, 254, 1>>),
        Vec({63}, Filled(9, 128) \o <<1>>),
        Vec(xffff, Filled(9, 255) \o <<1>>),
        Vec(Words64(<<{}, {0}>>), Filled(9, 128) \o <<2>>),
        Vec(Words64(<<{}, {63}>>), Filled(18, 128) \o <<2>>),
        Vec(Words64(<<xffff, xffff>>), Filled(18, 255) \o <<3>>),
        Vec(Words64(<<x0123, x0123, x0123>>),
            <<239, 155, 175, 205, 248, 172, 209, 145, 129, 222, 183, 222,
              154, 241, 217, 162, 163, 130, 188, 239, 188, 181, 226, 179,
              197, 198, 4>>),
        Vec(Words64(<<xffff, xffff, xffff>>), Filled(27, 255) \o <<7>>)}

\* stream[1] is the row under test
InitVectors ==
    /\ arch \in Archs
    /\ sizeRes = 0 /\ encRes = NoEnc /\ decRes = NoDec
    /\ \E v \in Vectors :
          /\ stream = <<v>>
          /\ value = WordsOfBits(v.bits, wordSize(arch))
          /\ uvalue = v.bits \cap (0 .. (UintBits - 1))
    /\ preValue = {} /\ preBitCount = 0
    /\ buffer = <<>>
    /\ offset = 0 /\ outputs = <<>>
    /\ NoProcs
    /\ pc = "vstart"

\* expectedByteCount := EncodedSize(expectedBigInt); make([]byte, ...)
VectorSize ==
    /\ pc = "vstart"
    /\ sizeRes' = EncodedSize(arch, value)
    /\ buffer' = Filled(sizeRes', 0)
    /\ pc' = "vsized"
    /\ UNCHANGED <<streamVars, procVars, arch, value, uvalue, preValue, preBitCount, encRes,
                   decRes>>

\* Encode(expectedBigInt, actualBytes), or EncodeUint64(expectedUint,
\* actualBytes) for a row of one word
VectorEncode ==
    /\ pc = "vsized"
    /\ \E big \in BOOLEAN :
          /\ big \/ stream[1].bits \subseteq 0 .. (UintBits - 1)
          /\ encRes' = IF big THEN Encode(arch, value, buffer)
                       ELSE EncodeUint64(uvalue, buffer)
    /\ buffer' = encRes'.buffer
    /\ pc' = "vencoded"
    /\ UNCHANGED <<streamVars, procVars, arch, value, uvalue, preValue, preBitCount, sizeRes,
                   decRes>>

\* Decode(0, 0, expectedBytes)
VectorDecode ==
    /\ pc = "vencoded"
    /\ decRes' = Decode(arch, {}, 0, stream[1].bytes)
    /\ pc' = "vdecoded"
    /\ UNCHANGED <<streamVars, procVars, arch, value, uvalue, preValue, preBitCount, buffer,
                   sizeRes, encRes>>

\* a big.Int with its sign: neg and the magnitude words abs (zero is never
\* negative)
BigInt(neg, abs) == [neg |-> neg /\ abs # <<>>, abs |-> abs]

\* mutant: the words of a negative value carry a sign word on top
Bits_signWord(x) == IF x.neg THEN Append(x.abs, {0}) ELSE x.abs

\* value.Bits(), as EncodedSize and the encoders call it: the magnitude
Bits(x) == x.abs

\* EncodedSize(value) and Encode(value, buffer) of a signed big.Int
EncodedSizeInt(a, x) == EncodedSize(a, Bits(x))
EncodeInt(a, x, buf) == Encode(a, Bits(x), buf)

\* EncodedSize(V) and EncodedSize(-V)
SignSize ==
    /\ pc = "start"
    /\ sizeRes' = EncodedSizeInt(arch, BigInt(FALSE, value))
    /\ outputs' = <<EncodedSizeInt(arch, BigInt(TRUE, value))>>
    /\ pc' = "gsized"
    /\ UNCHANGED <<procVars, arch, value, uvalue, preValue, preBitCount, buffer, encRes,
                   decRes, stream, offset>>

\* the buffer contents each of the two calls starts from
SignMake ==
    /\ pc = "gsized"
    /\ \E n \in BufLens(sizeRes), fill \in FillBytes : buffer' = Filled(n, fill)
    /\ pc' = "gready"
    /\ UNCHANGED <<streamVars, procVars, arch, value, uvalue, preValue, preBitCount, sizeRes,
                   encRes, decRes>>

\* Encode(V, buffer) and Encode(-V, buffer), each on its own copy of the buffer
SignEncode ==
    /\ pc = "gready"
    /\ encRes' = EncodeInt(arch, BigInt(FALSE, value), buffer)
    /\ outputs' = Append(outputs, EncodeInt(arch, BigInt(TRUE, value), buffer))
    /\ pc' = "gencoded"
    /\ UNCHANGED <<procVars, arch, value, uvalue, preValue, preBitCount, buffer, sizeRes,
                   decRes, stream, offset>>

\* one number below 2^64 as a uint64 and as a big.Int
InitBoth ==
    /\ InitCommon
    /\ uvalue \in UintValues
    /\ value = WordsOfBits(uvalue, wordSize(arch))
    /\ preValue = {} /\ preBitCount = 0
    /\ buffer = <<>>
    /\ pc = "bstart"

\* EncodedSizeUint64(expectedUint) and EncodedSize(expectedBigInt)
BothSize ==
    /\ pc = "bstart"
    /\ sizeRes' = EncodedSizeUint64(uvalue)
    /\ outputs' = <<EncodedSize(arch, value)>>
    /\ pc' = "bsized"
    /\ UNCHANGED <<procVars, arch, value, uvalue, preValue, preBitCount, buffer, encRes,
                   decRes, stream, offset>>

\* the buffer contents each of the two encoders is handed
BothMake ==
    /\ pc = "bsized"
    /\ \E n \in BufLens(sizeRes), fill \in FillBytes : buffer' = Filled(n, fill)
    /\ pc' = "bready"
    /\ UNCHANGED <<streamVars, procVars, arch, value, uvalue, preValue, preBitCount, sizeRes,
                   encRes, decRes>>

\* EncodeUint64(expectedUint, actualBytes) and Encode(expectedBigInt,
\* actualBytes), each on its own buffer of the same length and contents
BothEncode ==
    /\ pc = "bready"
    /\ encRes' = EncodeUint64(uvalue, buffer)
    /\ outputs' = Append(outputs, Encode(arch, value, buffer))
    /\ pc' = "bencoded"
    /\ UNCHANGED <<procVars, arch, value, uvalue, preValue, preBitCount, buffer, sizeRes,
                   decRes, stream, offset>>

\* the words of the same number on the 64-bit build (toBigWords64), given its
\* words on the 32-bit build (toBigWords32)
words64(v) == WordsOfBits(BitsOfWords(v, 32), 64)

\* one number, on a 32-bit build (value, encRes) and on a 64-bit build (outputs)
InitWidth ==
    /\ arch = 32
    /\ sizeRes = 0 /\ encRes = NoEnc /\ decRes = NoDec
    /\ NoStream /\ NoProcs
    /\ \E bits \in BigValues : value = WordsOfBits(bits, 32)
    /\ uvalue = {}
    /\ preValue = {} /\ preBitCount = 0
    /\ buffer = <<>>
    /\ pc = "xstart"

\* EncodedSize on the two builds
WidthSize ==
    /\ pc = "xstart"
    /\ sizeRes' = EncodedSize(32, value)
    /\ outputs' = <<EncodedSize(64, words64(value))>>
    /\ pc' = "xsized"
    /\ UNCHANGED <<procVars, arch, value, uvalue, preValue, preBitCount, buffer, encRes,
                   decRes, stream, offset>>

\* the buffer contents each of the two builds starts from
WidthMake ==
    /\ pc = "xsized"
    /\ \E n \in BufLens(sizeRes), fill \in FillBytes : buffer' = Filled(n, fill)
    /\ pc' = "xready"
    /\ UNCHANGED <<streamVars, procVars, arch, value, uvalue, preValue, preBitCount, sizeRes,
                   encRes, decRes>>

\* encode32 on the 32-bit build, encode64 on the 64-bit build
WidthEncode ==
    /\ pc = "xready"
    /\ encRes' = encode32(32, value, buffer)
    /\ outputs' = Append(outputs, encode64(64, words64(value), buffer))
    /\ pc' = "xencoded"
    /\ UNCHANGED <<procVars, arch, value, uvalue, preValue, preBitCount, buffer, sizeRes,
                   decRes, stream, offset>>

----------------------------------------------------------------------------
(* The stream variant's uint64 encoder, which has no capacity check *)

\* const lastByteMask = ^uint64(0x7f)
lastByteMask == 7 .. (UintBits - 1)

\* mutant: the flag is cleared by looking at the value before it is shifted
RECURSIVE toBytesLoop_lateFlag(_, _, _, _)
toBytesLoop_lateFlag(v, byteCount, continueFlag, buf) ==
    IF v = {} THEN EncResult(byteCount, TRUE, FALSE, buf)
    ELSE IF ~InRange(buf, byteCount) THEN EncResult(byteCount, FALSE, TRUE, buf)
    ELSE toBytesLoop_lateFlag(Shr(v, 7), byteCount + 1,
                              IF v \cap lastByteMask = {} THEN 0 ELSE continueFlag,
                              [buf EXCEPT ![byteCount + 1] =
                                  ByteOf(v \cap (0 .. 6)) + continueFlag])

\* for value != 0 { buffer[byteCount] = ...; byteCount++; value >>= 7; ... }
\* (a store outside the slice is Go's index-out-of-range panic)
RECURSIVE toBytesLoop(_, _, _, _)
toBytesLoop(v, byteCount, continueFlag, buf) ==
    IF v = {} THEN EncResult(byteCount, TRUE, FALSE, buf)
    ELSE IF ~InRange(buf, byteCount) THEN EncResult(byteCount, FALSE, TRUE, buf)
    ELSE toBytesLoop(Shr(v, 7), byteCount + 1,
                     IF Shr(v, 7) \cap lastByteMask = {} THEN 0 ELSE continueFlag,
                     [buf EXCEPT ![byteCount + 1] = ByteOf(v \cap (0 .. 6)) + continueFlag])

EncodeUint64ToBytes(v, buf) ==
    IF v \cap lastByteMask = {}
    THEN IF ~InRange(buf, 0) THEN EncResult(0, FALSE, TRUE, buf)
         ELSE EncResult(1, TRUE, FALSE, [buf EXCEPT ![1] = ByteOf(v)])
    ELSE toBytesLoop(v, 0, continuationMask, buf)

\* buffer[byteCount] = byte(accum & payloadMask); byteCount++; accum >>= 7
storePlain(st) ==
    IF ~InRange(st.buffer, st.bufferPos) THEN [st EXCEPT !.status = "panic"]
    ELSE [st EXCEPT !.buffer[st.bufferPos + 1] = ByteOf(st.accum \cap BitsOfByte(payloadMask)),
                    !.accum = Shr(st.accum, 7),
                    !.bufferPos = st.bufferPos + 1]

\* buffer[byteCount-1] |= continuationMask
setContinuation(st) ==
    [st EXCEPT !.buffer[st.bufferPos] =
                  ByteOf(BitsOfByte(st.buffer[st.bufferPos]) \cup BitsOfByte(continuationMask))]

\* the return inside the last word's loops
toBytesReturn(st) == [st EXCEPT !.status = "done", !.byteCount = st.bufferPos]

\* for j := 0; j < groupCount; j++ { ... } of a word that is not the last:
\* no capacity check, a store outside the slice panics
RECURSIVE toBytesGroups(_, _, _)
toBytesGroups(st, j, groupCount) ==
    IF j >= groupCount \/ st.status # "run" THEN st
    ELSE toBytesGroups(emitGroup(st), j + 1, groupCount)

\* the loop over the low half of the last word
RECURSIVE toBytesLastLow(_, _, _, _)
toBytesLastLow(st, j, groupCount, srcWordHigh) ==
    IF j >= groupCount THEN st
    ELSE LET st1 == storePlain(st)
         IN IF st1.status # "run" THEN st1
            ELSE IF st1.accum = {} /\ srcWordHigh = {} THEN toBytesReturn(st1)
            ELSE toBytesLastLow(setContinuation(st1), j + 1, groupCount, srcWordHigh)

\* the unbounded loop over the high half of the last word
RECURSIVE toBytesLastHigh(_)
toBytesLastHigh(st) ==
    LET st1 == storePlain(st)
    IN IF st1.status # "run" THEN st1
       ELSE IF st1.accum = {} THEN toBytesReturn(st1)
       ELSE toBytesLastHigh(setContinuation(st1))

toBytesLow(a, st, srcWord, isLast) ==
    IF is32Bit(a) /\ ~InRange(leftShifts32, st.shiftIndex)
    THEN [st EXCEPT !.status = "panic"]
    ELSE LET shift == IF is32Bit(a) THEN At(leftShifts32, st.shiftIndex)
                      ELSE st.shiftIndex \div 2
             st1 == [st EXCEPT !.accum = st.accum \cup
                                   Shl(srcWord \cap lowMask(a), shift, wordSize(a))]
         IN IF ~InRange(groupCounts(a), st.shiftIndex)
            THEN [st1 EXCEPT !.status = "panic"]
            ELSE IF isLast
                 THEN toBytesLastLow(st1, 0, At(groupCounts(a), st.shiftIndex),
                                     srcWord \cap highMask(a))
                 ELSE toBytesGroups(st1, 0, At(groupCounts(a), st.shiftIndex))

toBytesHigh(a, st, srcWord, isLast) ==
    IF ~InRange(rightShifts(a), st.shiftIndex)
    THEN [st EXCEPT !.status = "panic"]
    ELSE LET shift == At(rightShifts(a), st.shiftIndex)
             st1 == [st EXCEPT !.accum = st.accum \cup Shr(srcWord \cap highMask(a), shift)]
         IN IF ~InRange(groupCounts(a), st.shiftIndex)
            THEN [st1 EXCEPT !.status = "panic"]
            ELSE IF isLast
                 THEN toBytesLastHigh(st1)
                 ELSE toBytesGroups(st1, 0, At(groupCounts(a), st.shiftIndex))

toBytesWord(a, st, srcWord, isLast) ==
    LET st1 == advance(toBytesLow(a, st, srcWord, isLast))
    IN IF st1.status # "run" THEN st1
       ELSE advance(toBytesHigh(a, st1, srcWord, isLast))

RECURSIVE toBytesFrom(_, _, _, _)
toBytesFrom(a, words, st, i) ==
    IF st.status # "run" \/ i > Len(words) THEN st
    ELSE toBytesFrom(a, words, toBytesWord(a, st, words[i], i = Len(words)), i + 1)

\* EncodeToBytes of the stream variant: encode32 / encode64 without "ok"
EncodeToBytes(a, v, buf) ==
    IF isZero(v)
    THEN IF ~InRange(buf, 0) THEN EncResult(0, FALSE, TRUE, buf)
         ELSE EncResult(1, TRUE, FALSE, [buf EXCEPT ![1] = 0])
    ELSE LET st == toBytesFrom(a, v, EncState(buf), 1)
         IN EncResult(st.byteCount, st.status = "done", st.status = "panic", st.buffer)

\* EncodeToBytes on a buffer of MaxBufferWriteBytes bytes, as its comment invites
ToBytesCall ==
    /\ pc = "sized"
    /\ LET r == EncodeToBytes(arch, value, Filled(MaxBufferWriteBytes, 0))
       IN encRes' = r /\ buffer' = r.buffer
    /\ pc' = "tobytes"
    /\ UNCHANGED <<streamVars, procVars, arch, value, uvalue, preValue, preBitCount, sizeRes,
                   decRes>>

\* Encode(value, writer): buffer := make([]byte, EncodedSize(value)), then
\* EncodeToBytes(value, buffer); outputs holds what goes to the writer
WriterEncode ==
    /\ pc = "tobytes"
    /\ outputs' = <<EncodeToBytes(arch, value, Filled(sizeRes, 0))>>
    /\ pc' = "streamed"
    /\ UNCHANGED <<procVars, arch, value, uvalue, preValue, preBitCount, buffer, sizeRes,
                   encRes, decRes, stream, offset>>

\* the uint64 encoders on buffers of MaxBufferWriteBytes bytes and more
InitTen ==
    /\ InitCommon
    /\ value = <<>>
    /\ uvalue \in UintValues
    /\ preValue = {} /\ preBitCount = 0
    /\ buffer = <<>>
    /\ pc = "tstart"

TenSize ==
    /\ pc = "tstart"
    /\ sizeRes' = EncodedSizeUint64(uvalue)
    /\ pc' = "tsized"
    /\ UNCHANGED <<streamVars, procVars, arch, value, uvalue, preValue, preBitCount, buffer,
                   encRes, decRes>>

\* a caller's buffer with room beyond the tenth byte
TenMake ==
    /\ pc = "tsized"
    /\ \E n \in MaxBufferWriteBytes .. (MaxBufferWriteBytes + 1 + Slack), fill \in FillBytes :
          buffer' = Filled(n, fill)
    /\ pc' = "tready"
    /\ UNCHANGED <<streamVars, procVars, arch, value, uvalue, preValue, preBitCount, sizeRes,
                   encRes, decRes>>

\* EncodeUint64(value, buffer) on a copy of the caller's buffer, and the
\* stream variant: buffer := make([]byte, 10); EncodeUint64ToBytes(value, buffer)
TenEncode ==
    /\ pc = "tready"
    /\ encRes' = EncodeUint64(uvalue, buffer)
    /\ outputs' = <<EncodeUint64ToBytes(uvalue, Filled(MaxBufferWriteBytes, 0))>>
    /\ pc' = "tencoded"
    /\ UNCHANGED <<procVars, arch, value, uvalue, preValue, preBitCount, buffer, sizeRes,
                   decRes, stream, offset>>

----------------------------------------------------------------------------
(* Concurrent calls.  Every call has its own arguments, its own buffer and  *)
(* its own locals (procs[i]); the package-level tables are the only data    *)
(* all calls see.  A step is one pass of a call's outermost loop.           *)

\* the calls that run side by side: an Encode that succeeds, an Encode whose
\* buffer is a byte short, an EncodeUint64, a Decode, a seeded Decode
Calls ==
    {[kind |-> "enc", bits |-> {UintBits}, pv |-> {}, pbc |-> 0, buf |-> Filled(10, 0)],
     [kind |-> "enc", bits |-> 0 .. 69, pv |-> {}, pbc |-> 0, buf |-> Filled(9, 255)],
     [kind |-> "uenc", bits |-> {14}, pv |-> {}, pbc |-> 0, buf |-> Filled(3, 0)],
     [kind |-> "dec", bits |-> {}, pv |-> {}, pbc |-> 0, buf |-> <<128, 128, 1>>],
     [kind |-> "dec", bits |-> {}, pv |-> 0 .. (UintBits - 1), pbc |-> MaxPreBitCount,
      buf |-> <<255, 127>>]}

\* the locals of a call before its first statement
NoLocals ==
    [st |-> EncState(<<>>), i |-> 0, half |-> 0, v |-> {}, words |-> <<>>, word |-> {},
     bitIndex |-> 0, index |-> 0]

NewProc(c) == [call |-> c, status |-> "new", loc |-> NoLocals, enc |-> NoEnc, dec |-> NoDec]

\* what the call returns when nothing else runs
Alone(a, c) ==
    IF c.kind = "enc"
    THEN [enc |-> Encode(a, WordsOfBits(c.bits, wordSize(a)), c.buf), dec |-> NoDec]
    ELSE IF c.kind = "uenc"
    THEN [enc |-> EncodeUint64(c.bits, c.buf), dec |-> NoDec]
    ELSE [enc |-> NoEnc, dec |-> Decode(a, c.pv, c.pbc, c.buf)]

encDone(p, r) == [p EXCEPT !.status = "done", !.enc = r]
decDone(p, r) == [p EXCEPT !.status = "done", !.dec = r]

\* Encode up to its loop over the words, then one word per step
encodeStep(a, p) ==
    LET v == WordsOfBits(p.call.bits, wordSize(a))
        buf == p.call.buf
    IN IF p.status = "new"
       THEN IF isZero(v)
            THEN IF Len(buf) = 0 THEN encDone(p, EncResult(0, FALSE, FALSE, buf))
                 ELSE encDone(p, EncResult(1, TRUE, FALSE, [buf EXCEPT ![1] = 0]))
            ELSE [p EXCEPT !.status = "run", !.loc.st = EncState(buf), !.loc.i = 1]
       ELSE LET st == encodeWord(a, p.loc.st, v[p.loc.i], p.loc.i = Len(v))
            IN IF st.status # "run"
               THEN encDone([p EXCEPT !.loc.st = st],
                            EncResult(st.byteCount, st.status = "done", st.status = "panic",
                                      st.buffer))
               ELSE [p EXCEPT !.loc.st = st, !.loc.i = p.loc.i + 1]

\* EncodeUint64 up to its loop, then one pass of "for value != 0" per step
encodeUint64Step(p) ==
    LET buf == p.call.buf
        l == p.loc
    IN IF p.status = "new"
       THEN IF p.call.bits = {}
            THEN IF Len(buf) = 0 THEN encDone(p, EncResult(0, FALSE, FALSE, buf))
                 ELSE encDone(p, EncResult(1, TRUE, FALSE, [buf EXCEPT ![1] = 0]))
            ELSE [p EXCEPT !.status = "run", !.loc.v = p.call.bits, !.loc.index = 0,
                           !.loc.st.buffer = buf]
       ELSE IF l.v # {}
            THEN IF l.index >= Len(l.st.buffer)
                 THEN encDone(p, EncResult(0, FALSE, FALSE, l.st.buffer))
                 ELSE [p EXCEPT !.loc.st.buffer[l.index + 1] = groupByte(l.v),
                                !.loc.v = Shr(l.v, 7),
                                !.loc.index = l.index + 1]
            ELSE encDone(p, EncResult(l.index, TRUE, FALSE,
                                      [l.st.buffer EXCEPT ![l.index] =
                                          clearContinuation(l.st.buffer[l.index])]))

\* mutant: the bits of a byte that do not fit the closed word are dropped
carryWord_none(b, bitIndex) == {}

\* word = big.Word(b&payloadMask) >> (7 - bitIndex)
carryWord(b, bitIndex) == Shr(payloadOf(b), 7 - bitIndex)

\* Decode up to its loop over the bytes, then one byte per step
decodeStep(a, p) ==
    LET buf == p.call.buf
        l == p.loc
    IN IF p.status = "new"
       THEN LET pbc == IF p.call.pbc > MaxPreBitCount THEN MaxPreBitCount ELSE p.call.pbc
                pv == p.call.pv \cap maskForBitCount(pbc)
            IN IF Len(buf) = 0 THEN decDone(p, DecResult(pv, NilBig, 0, FALSE))
               ELSE IF buf[1] = 0 THEN decDone(p, DecResult(pv, NilBig, 1, TRUE))
               ELSE IF buf[1] < 128 /\ pbc <= 57
                    THEN decDone(p, DecResult(Shl(BitsOfByte(buf[1]), pbc, UintBits) \cup pv,
                                              NilBig, 1, TRUE))
               ELSE LET seed == seedWords(a, <<>>, pv, pbc)
                    IN [p EXCEPT !.status = "run", !.loc.words = seed.words,
                                 !.loc.word = toWord(a, seed.preValue),
                                 !.loc.bitIndex = seed.preBitCount, !.loc.index = 0]
       ELSE IF l.index >= Len(buf) THEN decDone(p, DecResult({}, NilBig, 0, FALSE))
       ELSE LET b == buf[l.index + 1]
                word1 == l.word \cup Shl(payloadOf(b), l.bitIndex, wordSize(a))
                bitIndex1 == l.bitIndex + 7
                carry == bitIndex1 >= wordSize(a)
                words2 == IF carry THEN Append(l.words, word1) ELSE l.words
                bitIndex2 == IF carry THEN bitIndex1 % (wordMask(a) + 1) ELSE bitIndex1
                word2 == IF carry THEN carryWord(b, bitIndex2) ELSE word1
            IN IF ~hasContinuation(b)
               THEN decDone(p, decodeFinish(a, l.index, words2, word2))
               ELSE [p EXCEPT !.loc.words = words2, !.loc.word = word2,
                              !.loc.bitIndex = bitIndex2, !.loc.index = l.index + 1]

procStep(a, p) ==
    IF p.call.kind = "enc" THEN encodeStep(a, p)
    ELSE IF p.call.kind = "uenc" THEN encodeUint64Step(p)
    ELSE decodeStep(a, p)

\* mutant: accum is one package-level variable, which every running Encode uses
stepProcs_sharedAccum(a, ps, i) ==
    LET new == procStep(a, ps[i])
    IN [j \in 1 .. Len(ps) |->
           IF j = i THEN new ELSE [ps[j] EXCEPT !.loc.st.accum = new.loc.st.accum]]

\* a step of call i changes the locals and the buffer of call i only
stepProcs(a, ps, i) == [ps EXCEPT ![i] = procStep(a, ps[i])]

RECURSIVE ProcSeqs(_)
ProcSeqs(n) ==
    IF n = 0 THEN {<<>>}
    ELSE {Append(ps, NewProc(c)) : ps \in ProcSeqs(n - 1), c \in Calls}

InitProcs ==
    /\ arch \in Archs
    /\ sizeRes = 0 /\ encRes = NoEnc /\ decRes = NoDec
    /\ value = <<>> /\ uvalue = {}
    /\ preValue = {} /\ preBitCount = 0
    /\ buffer = <<>>
    /\ NoStream
    /\ procs \in ProcSeqs(NumProcs)
    /\ tables = PackageTables
    /\ pc = "calls"

\* the scheduler runs the next step of any call that has not returned
ProcStep ==
    /\ \E i \in 1 .. Len(procs) :
          /\ procs[i].status # "done"
          /\ procs' = stepProcs(arch, procs, i)
    /\ UNCHANGED <<streamVars, tables, arch, value, uvalue, preValue, preBitCount, buffer,
                   sizeRes, encRes, decRes, pc>>

\* the "remain" column of the tables' comments: the bits left in accum after
\* each step
remain64 == <<4, 1, 5, 2, 6, 3, 0, 4, 1, 5, 2, 6, 3, 0>>
remain32 == <<2, 4, 6, 1, 3, 5, 0, 2, 4, 6, 1, 3, 5, 0>>
remain(a) == IF is32Bit(a) THEN remain32 ELSE remain64

\* Encode, one half-word per step: loc.half is 0 before the low half of word
\* loc.i and 1 before its high half
encodeHalfStep(a, p) ==
    LET v == WordsOfBits(p.call.bits, wordSize(a))
        buf == p.call.buf
        l == p.loc
    IN IF p.status = "new"
       THEN IF isZero(v)
            THEN IF Len(buf) = 0 THEN encDone(p, EncResult(0, FALSE, FALSE, buf))
                 ELSE encDone(p, EncResult(1, TRUE, FALSE, [buf EXCEPT ![1] = 0]))
            ELSE [p EXCEPT !.status = "run", !.loc.st = EncState(buf), !.loc.i = 1,
                           !.loc.half = 0]
       ELSE LET st == IF l.half = 0
                      THEN advance(lowHalf(a, l.st, v[l.i], l.i = Len(v)))
                      ELSE advance(highHalf(a, l.st, v[l.i], l.i = Len(v)))
            IN IF st.status # "run"
               THEN encDone([p EXCEPT !.loc.st = st],
                            EncResult(st.byteCount, st.status = "done", st.status = "panic",
                                      st.buffer))
               ELSE [p EXCEPT !.loc.st = st,
                              !.loc.i = IF l.half = 0 THEN l.i ELSE l.i + 1,
                              !.loc.half = 1 - l.half]

HalfStep ==
    /\ Len(procs) = 1
    /\ procs[1].status # "done"
    /\ procs' = <<encodeHalfStep(arch, procs[1])>>
    /\ UNCHANGED <<streamVars, tables, arch, value, uvalue, preValue, preBitCount, buffer,
                   sizeRes, encRes, decRes, pc>>

\* one Encode call, watched word by word: values of 1, 33, 65, ... bits, so
\* of every word count up to MaxBits \div 32 + 1, in a buffer of the exact size
StepLens == {len \in 1 .. MaxBits : len % 32 = 1}
StepCalls(a) ==
    {[kind |-> "enc", bits |-> Pattern(name, len), pv |-> {}, pbc |-> 0,
      buf |-> Filled(EncodedSize(a, WordsOfBits(Pattern(name, len), wordSize(a))), 0)]
        : name \in PatternNames, len \in StepLens}

InitSteps ==
    /\ arch \in Archs
    /\ sizeRes = 0 /\ encRes = NoEnc /\ decRes = NoDec
    /\ value = <<>> /\ uvalue = {}
    /\ preValue = {} /\ preBitCount = 0
    /\ buffer = <<>>
    /\ NoStream
    /\ \E c \in StepCalls(arch) : procs = <<NewProc(c)>>
    /\ tables = PackageTables
    /\ pc = "calls"

\* one Decode call, watched byte by byte: every seed width, MaxCont bytes with
\* the continuation flag (payloads all clear, all set, or all different) and
\* a terminator
DecStepBuffers ==
    {Filled(MaxCont, c) \o <<127>> : c \in ContBytes}
    \cup {[i \in 1 .. (MaxCont + 1) |-> IF i <= MaxCont THEN 128 + i ELSE 1]}

InitDecSteps ==
    /\ arch \in Archs
    /\ sizeRes = 0 /\ encRes = NoEnc /\ decRes = NoDec
    /\ value = <<>> /\ uvalue = {}
    /\ preValue = {} /\ preBitCount = 0
    /\ buffer = <<>>
    /\ NoStream
    /\ \E pv \in PreValues, pbc \in 0 .. MaxPreBitCount, buf \in DecStepBuffers :
          procs = <<NewProc([kind |-> "dec", bits |-> {}, pv |-> pv, pbc |-> pbc,
                             buf |-> buf])>>
    /\ tables = PackageTables
    /\ pc = "calls"

\* calls whose every loop is followed to its end: Encode of every word count
\* with buffers that are too short, exact and too long, EncodeUint64, and
\* Decode of terminated and unterminated buffers with seeds of 0..2 words
EncCallsFor(a, bits) ==
    {[kind |-> "enc", bits |-> bits, pv |-> {}, pbc |-> 0, buf |-> Filled(n, 0)]
        : n \in {EncodedSize(a, WordsOfBits(bits, wordSize(a))) + d : d \in {-1, 0, 1}}}
TermCalls(a) ==
    UNION {EncCallsFor(a, Pattern(name, len))
              : name \in PatternNames, len \in StepLens \cup {0}}
    \cup {[kind |-> "uenc", bits |-> Pattern(name, len), pv |-> {}, pbc |-> 0,
           buf |-> Filled(n, 0)]
             : name \in PatternNames, len \in {0, 1, 7, 8, 63, 64}, n \in {1, 9, 10}}
    \cup {[kind |-> "dec", bits |-> {}, pv |-> 0 .. (UintBits - 1), pbc |-> pbc, buf |-> buf]
             : pbc \in {0, 31, 32, 63, 64},
               buf \in DecStepBuffers \cup {<<>>, <<0>>, Filled(MaxCont, 255)}}

\* the state of the counting loop of EncodedSize / EncodedSizeUint64 before
\* its first pass: the groups counted so far and the bits still to count
sizeLoopStart(a, c) ==
    LET v == WordsOfBits(c.bits, wordSize(a))
        bits == (Len(v) - 1) * wordSize(a)
    IN IF c.kind = "dec" \/ c.bits = {} THEN [groupCount |-> 1, highWord |-> {}]
       ELSE IF c.kind = "uenc" THEN [groupCount |-> 0, highWord |-> c.bits]
       ELSE [groupCount |-> bits \div 7 + 1, highWord |-> Shr(v[Len(v)], 7 - (bits % 7))]

InitTerm ==
    /\ arch \in Archs
    /\ encRes = NoEnc /\ decRes = NoDec
    /\ value = <<>>
    /\ preValue = {} /\ preBitCount = 0
    /\ buffer = <<>>
    /\ NoStream
    /\ \E c \in TermCalls(arch) :
          /\ procs = <<NewProc(c)>>
          /\ sizeRes = sizeLoopStart(arch, c).groupCount
          /\ uvalue = sizeLoopStart(arch, c).highWord
    /\ tables = PackageTables
    /\ pc = "sizing"

\* for highWord != 0 { groupCount++; highWord >>= 7 }, one pass per step
SizeLoopStep ==
    /\ pc = "sizing"
    /\ IF uvalue # {}
       THEN sizeRes' = sizeRes + 1 /\ uvalue' = Shr(uvalue, 7) /\ pc' = pc
       ELSE sizeRes' = sizeRes /\ uvalue' = uvalue /\ pc' = "calls"
    /\ UNCHANGED <<streamVars, procVars, arch, value, preValue, preBitCount, buffer, encRes,
                   decRes>>

\* then the call itself, one loop pass per step
CallStep ==
    /\ pc = "calls"
    /\ ProcStep

\* a buffer of every length below the encoded size
ShortBuffer ==
    /\ pc \in {"sized", "usized"}
    /\ \E n \in 0 .. (sizeRes - 1), fill \in FillBytes : buffer' = Filled(n, fill)
    /\ pc' = IF pc = "sized" THEN "ready" ELSE "uready"
    /\ UNCHANGED <<streamVars, procVars, arch, value, uvalue, preValue, preBitCount, sizeRes,
                   encRes, decRes>>

\* canonical encodings of values below 2^64: 1 .. MaxCanonBytes bytes, all
\* but the last with the continuation flag, the last one without it and not
\* zero (except in the single byte 0x00); the tenth byte can only be 0x01.
\* Every single byte, and for the longer ones payloads that are all clear,
\* all set, all different, or set in one byte only
CanonHeads(n) ==
    {Filled(n, c) : c \in ContBytes}
    \cup {[i \in 1 .. n |-> 128 + 11 * i]}
    \cup {[i \in 1 .. n |-> IF i = k THEN 255 ELSE 128] : k \in 1 .. n}
CanonLasts(n) == IF n = MaxCanonBytes - 1 THEN {1} ELSE {1, 2, 64, 85, 127}
CanonBuffers ==
    {<<b>> : b \in 0 .. 127}
    \cup UNION {{h \o <<t>> : h \in CanonHeads(n), t \in CanonLasts(n)}
                  : n \in 1 .. (MaxCanonBytes - 1)}

InitCanon ==
    /\ InitCommon
    /\ value = <<>>
    /\ uvalue = {}
    /\ preValue = {} /\ preBitCount = 0
    /\ buffer \in CanonBuffers
    /\ pc = "canon"

\* Decode(0, 0, B)
CanonDecode ==
    /\ pc = "canon"
    /\ decRes' = Decode(arch, preValue, preBitCount, buffer)
    /\ pc' = "cdecoded"
    /\ UNCHANGED <<streamVars, procVars, arch, value, uvalue, preValue, preBitCount, buffer,
                   sizeRes, encRes>>

\* EncodeUint64(asUint, make([]byte, len(B)))
CanonEncode ==
    /\ pc = "cdecoded"
    /\ uvalue' = decRes.asUint
    /\ \E fill \in FillBytes :
          encRes' = EncodeUint64(decRes.asUint, Filled(Len(buffer), fill))
    /\ pc' = "cencoded"
    /\ UNCHANGED <<streamVars, procVars, arch, value, preValue, preBitCount, buffer, sizeRes,
                   decRes>>

NextBig == SizeCall \/ MakeBuffer \/ EncodeCall \/ DecodeCall
NextUint == SizeUint64Call \/ MakeBuffer \/ EncodeUint64Call \/ DecodeCall
NextDecode == DecodeCall
NextEncode ==
    SizeCall \/ SizeUint64Call \/ MakeBuffer \/ EncodeCall \/ EncodeUint64Call \/ DecodeCall

SpecBig == InitBig /\ [][NextBig]_vars
SpecUint == InitUint /\ [][NextUint]_vars
SpecDecode == InitDecode /\ [][NextDecode]_vars
\* Decode of buffers that go on after the terminator
SpecTrailing == InitTrailing /\ [][NextDecode]_vars
\* a stream of values written into one buffer and read back
NextStream == StreamWrite \/ StreamDecode
SpecStream == InitStream /\ [][NextStream]_vars
\* one value read in two chunks
NextSplice == FirstRead \/ Retry \/ OneShot
SpecSplice == InitSplice /\ [][NextSplice]_vars
\* encode, pad, decode
NextPad == SizeCall \/ MakeBuffer \/ EncodeCall \/ PadCall \/ DecodeCall
SpecPad == InitPad /\ [][NextPad]_vars
\* the two encoders side by side
NextBoth == BothSize \/ BothMake \/ BothEncode
SpecBoth == InitBoth /\ [][NextBoth]_vars
\* the two word sizes side by side
NextWidth == WidthSize \/ WidthMake \/ WidthEncode
SpecWidth == InitWidth /\ [][NextWidth]_vars
\* calls that run interleaved
NextProcs == ProcStep
SpecProcs == InitProcs /\ [][NextProcs]_vars
\* the uint64 encoders and the ten-byte buffer
NextTen == TenSize \/ TenMake \/ TenEncode
SpecTen == InitTen /\ [][NextTen]_vars
\* the stream variant's arbitrary-precision encoder
NextToBytes == SizeCall \/ ToBytesCall \/ WriterEncode
SpecToBytes == InitBig /\ [][NextToBytes]_vars
\* a value and its negation
NextSign == SignSize \/ SignMake \/ SignEncode
SpecSign == InitBig /\ [][NextSign]_vars
\* the rows of the tests' tables
NextVectors == VectorSize \/ VectorEncode \/ VectorDecode
SpecVectors == InitVectors /\ [][NextVectors]_vars
\* one Encode call, word by word
SpecSteps == InitSteps /\ [][NextProcs]_vars
\* one Encode call, half-word by half-word
NextHalves == HalfStep
SpecHalves == InitSteps /\ [][NextHalves]_vars
\* one Decode call, byte by byte
SpecDecSteps == InitDecSteps /\ [][NextProcs]_vars
\* every loop of a call, pass by pass
NextTerm == SizeLoopStep \/ CallStep
SpecTerm == InitTerm /\ [][NextTerm]_vars
\* both encoders on buffers that are too short
NextShort == SizeCall \/ SizeUint64Call \/ ShortBuffer \/ EncodeCall \/ EncodeUint64Call
SpecShort == (InitBig \/ InitUint) /\ [][NextShort]_vars
\* canonical bytes decoded and encoded again
NextCanon == CanonDecode \/ CanonEncode
SpecCanon == InitCanon /\ [][NextCanon]_vars
\* both encoders
SpecEncode == (InitBig \/ InitUint) /\ [][NextEncode]_vars

----------------------------------------------------------------------------
(* Reference notions the properties are stated in *)

\* the number the caller asked to encode
ArgBits == IF pc \in {"start", "sized", "ready", "encoded", "panic", "decoded",
                       "padded", "pdecoded"}
           THEN BitsOfWords(value, wordSize(arch)) ELSE uvalue

\* the number a Decode result stands for
DecodedBits(a, r) ==
    IF r.asBigInt.isNil THEN r.asUint ELSE BitsOfWords(r.asBigInt.abs, wordSize(a))

\* bit length of a number
BitLength(s) == IF s = {} THEN 0 ELSE (CHOOSE m \in s : \A k \in s : k <= m) + 1

\* max(1, ceil(bitlength / 7))
CanonicalSize(s) == Max(1, (BitLength(s) + 6) \div 7)

\* index (from 1) of the first byte below 0x80, 0 if there is none
FirstTerminator(buf) ==
    IF \E i \in 1 .. Len(buf) : buf[i] < 128
    THEN CHOOSE i \in 1 .. Len(buf) : buf[i] < 128 /\ \A j \in 1 .. (i - 1) : buf[j] >= 128
    ELSE 0

FitsUint64(s) == s \subseteq 0 .. (UintBits - 1)

EncodeReturned == pc \in {"encoded", "uencoded"}

----------------------------------------------------------------------------
(* Properties *)

\* C1: round trip of the arbitrary-precision path: Encode into a buffer of
\* exactly EncodedSize(V) bytes returns (without panicking) ok = true and
\* byteCount = EncodedSize(V), and Decode(0, 0, buffer) then returns ok = true,
\* the same byteCount and the number V, in asUint when V < 2^64 and in
\* asBigInt otherwise.
C1_RoundTripBig ==
    /\ (pc \in {"encoded", "panic", "decoded"} /\ Len(buffer) = sizeRes)
          => /\ ~encRes.panicked
             /\ encRes.ok
             /\ encRes.byteCount = sizeRes
    /\ (pc = "decoded" /\ Len(buffer) = sizeRes)
          => /\ decRes.ok
             /\ decRes.byteCount = sizeRes
             /\ DecodedBits(arch, decRes) = ArgBits
             /\ decRes.asBigInt.isNil <=> FitsUint64(ArgBits)

\* C2: round trip of the fixed-width path: EncodeUint64 into a buffer of
\* exactly EncodedSizeUint64(v) bytes returns ok = true and that byteCount,
\* and Decode(0, 0, buffer) returns ok = true, asUint = v, asBigInt = nil and
\* the same byteCount.
C2_RoundTripUint ==
    /\ (pc \in {"uencoded", "udecoded"} /\ Len(buffer) = sizeRes)
          => /\ encRes.ok
             /\ encRes.byteCount = sizeRes
    /\ (pc = "udecoded" /\ Len(buffer) = sizeRes)
          => /\ decRes.ok
             /\ decRes.asUint = uvalue
             /\ decRes.asBigInt.isNil
             /\ decRes.byteCount = sizeRes

C2_Witness ==
    /\ pc = "udecoded" /\ Len(buffer) = sizeRes /\ sizeRes = 10
    /\ uvalue = 0 .. 63 /\ decRes.ok

\* C3: wire format: after a successful Encode or EncodeUint64 with byteCount n
\* the payloads of b[0..n-1], each shifted by 7*i, sum to V, every byte before
\* the last has the high bit set and the last has it clear.
C3_WireFormat ==
    (EncodeReturned /\ encRes.ok)
       => LET n == encRes.byteCount
          IN /\ n >= 1 /\ n <= Len(buffer)
             /\ PayloadSum(buffer, n, 0) = ArgBits
             /\ \A i \in 1 .. (n - 1) : buffer[i] >= 128
             /\ buffer[n] < 128

C3_Witness ==
    /\ pc = "encoded" /\ encRes.ok /\ encRes.byteCount >= 20 /\ Len(value) >= 3

\* C4: minimality: after a successful Encode or EncodeUint64 the value 0 is
\* the single byte 0x00 and for V > 0 the payload of the last written byte is
\* not zero.
C4_Minimal ==
    (EncodeReturned /\ encRes.ok)
       => IF ArgBits = {}
          THEN encRes.byteCount = 1 /\ buffer[1] = 0
          ELSE buffer[encRes.byteCount] % 128 # 0

\* the last word has an empty high half and leftover bits below it
C4_Witness ==
    /\ pc = "encoded" /\ encRes.ok /\ Len(value) >= 2
    /\ value[Len(value)] \cap highMask(arch) = {}

\* C5: exact size: EncodedSize(V) = max(1, ceil(bitlength(V) / 7)) for every
\* word count, and EncodedSizeUint64(v) is the same number as EncodedSize of
\* the same value.
C5_ExactSize ==
    /\ pc = "sized" => sizeRes = CanonicalSize(ArgBits)
    /\ pc = "usized" => /\ sizeRes = CanonicalSize(uvalue)
                        /\ sizeRes = EncodedSize(arch, WordsOfBits(uvalue, wordSize(arch)))

C5_Witness == pc = "sized" /\ Len(value) >= 3 /\ sizeRes >= 20

\* C6: insufficient capacity, arbitrary-precision path: Encode never panics,
\* returns ok = true exactly when len(buffer) >= EncodedSize(V), and leaves
\* the buffer's length alone.
C6_CapacityBig ==
    pc \in {"encoded", "panic"}
       => /\ ~encRes.panicked
          /\ encRes.ok <=> Len(encRes.buffer) >= sizeRes
          /\ Len(buffer) = Len(encRes.buffer)

\* C7: insufficient capacity, fixed-width path: EncodeUint64 returns ok = true
\* and byteCount = EncodedSizeUint64(v) exactly when the buffer is long
\* enough, otherwise ok = false and byteCount = 0, and it never stores outside
\* the buffer.
C7_CapacityUint ==
    pc = "uencoded"
       => /\ ~encRes.panicked
          /\ Len(buffer) = Len(encRes.buffer)
          /\ IF Len(buffer) >= sizeRes
             THEN encRes.ok /\ encRes.byteCount = sizeRes
             ELSE ~encRes.ok /\ encRes.byteCount = 0

C7_Witness ==
    /\ pc = "uencoded" /\ Len(buffer) >= 1 /\ Len(buffer) < sizeRes /\ ~encRes.ok

\* the number Decode is to return: the masked seed below the payloads up to
\* the first terminator
SeededBits ==
    (preValue \cap (0 .. (preBitCount - 1)))
        \cup PayloadSum(buffer, FirstTerminator(buffer), preBitCount)

\* C8: representation of the result: when Decode returns ok = true and the
\* value is below 2^64, asBigInt is nil and asUint holds the value; asBigInt
\* is non-nil, and equal to the value, only when the value is 2^64 or more.
C8_Representation ==
    (pc = "sdecoded" /\ decRes.ok)
       => IF FitsUint64(SeededBits)
          THEN decRes.asBigInt.isNil /\ decRes.asUint = SeededBits
          ELSE /\ ~decRes.asBigInt.isNil
               /\ BitsOfWords(decRes.asBigInt.abs, wordSize(arch)) = SeededBits

\* C9: seeded decode: for a buffer with a terminator Decode returns ok = true
\* and the number (preValue mod 2^preBitCount) + sum of the payloads up to the
\* terminator, each shifted by preBitCount + 7*i.
C9_SeededValue ==
    (pc = "sdecoded" /\ FirstTerminator(buffer) > 0)
       => /\ decRes.ok
          /\ DecodedBits(arch, decRes) = SeededBits

\* a seed with bits above preBitCount, and payloads that cross a word boundary
C9_Witness ==
    /\ pc = "sdecoded" /\ decRes.ok
    /\ preBitCount = 60 /\ preValue = 0 .. 63 /\ buffer = <<255, 127>>

\* C10: unterminated input: a non-empty buffer whose bytes all carry the
\* continuation flag makes Decode return ok = false, byteCount = 0 and a nil
\* asBigInt, whatever the seed.
C10_Unterminated ==
    (pc = "sdecoded" /\ buffer # <<>> /\ \A i \in 1 .. Len(buffer) : buffer[i] >= 128)
       => /\ ~decRes.ok
          /\ decRes.byteCount = 0
          /\ decRes.asBigInt.isNil

C10_Witness ==
    /\ pc = "sdecoded" /\ Len(buffer) = 10 /\ preBitCount = 64
    /\ \A i \in 1 .. Len(buffer) : buffer[i] >= 128
    /\ ~decRes.ok

\* C11: empty input: Decode of an empty buffer returns ok = false,
\* byteCount = 0, a nil asBigInt and asUint = preValue masked to its low
\* preBitCount bits.
C11_EmptyInput ==
    (pc = "sdecoded" /\ buffer = <<>>)
       => /\ ~decRes.ok
          /\ decRes.byteCount = 0
          /\ decRes.asBigInt.isNil
          /\ decRes.asUint = preValue \cap (0 .. (preBitCount - 1))

C11_Witness ==
    /\ pc = "sdecoded" /\ buffer = <<>> /\ preBitCount = 64 /\ preValue = 0 .. 63
    /\ decRes.asUint = 0 .. 63

\* C12: Decode stops at the first terminator: byteCount is the index of the
\* first byte below 0x80 plus one, and every output equals that of the buffer
\* cut off after that byte.
C12_StopsAtTerminator ==
    (pc = "sdecoded" /\ FirstTerminator(buffer) > 0)
       => /\ decRes.byteCount = FirstTerminator(buffer)
          /\ decRes = Decode(arch, preValue, preBitCount,
                             SubSeq(buffer, 1, FirstTerminator(buffer)))

C12_Witness ==
    /\ pc = "sdecoded" /\ buffer = <<128, 128, 127, 1, 0>> /\ decRes.byteCount = 3

C14_Splice ==
    /\ pc # "whole"
    /\ pc \in {"short", "spliced", "compared"}
          => ~outputs[1].ok /\ outputs[1].byteCount = 0
    /\ pc = "compared"
          => /\ outputs[2].ok /\ outputs[3].ok
             /\ DecodedBits(arch, outputs[2]) = DecodedBits(arch, outputs[3])
             /\ outputs[2].byteCount + offset = outputs[3].byteCount

\* nine carried bytes with different payloads, then a second chunk that
\* crosses the 64-bit boundary
C14_Witness ==
    /\ pc = "compared" /\ offset = MaxSplitBytes /\ buffer[1] # buffer[2]
    /\ Len(buffer) = MaxSplitBytes + 3 /\ buffer[Len(buffer)] = 127
    /\ ~outputs[3].asBigInt.isNil

\* C15: non-canonical input is accepted: a canonical encoding E of V with the
\* continuation flag set on its last byte, followed by m - 1 bytes 0x80 and one
\* byte 0x00, decodes with ok = true, byteCount = len(E) + m and the number V.
C15_PaddedAccepted ==
    pc = "pdecoded"
       => /\ decRes.ok
          /\ Len(buffer) > encRes.byteCount
          /\ decRes.byteCount = Len(buffer)
          /\ DecodedBits(arch, decRes) = ArgBits

\* a one-word value whose padding crosses two 64-bit word boundaries
C15_Witness ==
    /\ pc = "pdecoded" /\ arch = 64 /\ ArgBits = 0 .. 62
    /\ encRes.byteCount = 9 /\ Len(buffer) = 9 + MaxPad
    /\ decRes.ok

\* C16: fixed-width / arbitrary-precision equivalence: for v below 2^64,
\* EncodedSize(big(v)) = EncodedSizeUint64(v), and Encode(big(v)) and
\* EncodeUint64(v), given equal buffers, return the same ok and byteCount and
\* leave the same bytes in the buffer (also when the buffer is too short).
C16_SameAsBig ==
    /\ pc \in {"bsized", "bready", "bencoded"} => outputs[1] = sizeRes
    /\ pc = "bencoded"
          => /\ ~outputs[2].panicked
             /\ outputs[2].ok = encRes.ok
             /\ outputs[2].byteCount = encRes.byteCount
             /\ outputs[2].buffer = encRes.buffer

\* the largest uint64, ten bytes from both encoders
C16_Witness ==
    /\ pc = "bencoded" /\ uvalue = 0 .. (UintBits - 1) /\ arch = 32
    /\ encRes.ok /\ encRes.byteCount = 10 /\ outputs[2].byteCount = 10

\* C17: word-width independence of the encoder: for every number, encode32
\* over its 32-bit words and encode64 over its 64-bit words, given buffers of
\* the same length, produce the same outcome: the same ok, the same byteCount
\* and the same bytes.
C17_WidthIndependent ==
    pc = "xencoded"
       => /\ encRes.panicked = outputs[2].panicked
          /\ encRes.ok = outputs[2].ok
          /\ encRes.byteCount = outputs[2].byteCount
          /\ encRes.buffer = outputs[2].buffer

\* C18: frame of the operations: a successful Encode / EncodeUint64 returning
\* byteCount n keeps the buffer's length and every byte at index >= n; Encode
\* (successful or not) leaves the words of its argument as they were; Decode
\* leaves its buffer as it was.
C18_Frame ==
    [][/\ (pc \in {"ready", "uready"} /\ pc' \in {"encoded", "uencoded"} /\ encRes'.ok)
          => /\ Len(buffer') = Len(buffer)
             /\ \A i \in (encRes'.byteCount + 1) .. Len(buffer) : buffer'[i] = buffer[i]
       /\ (pc \in {"ready", "uready"} /\ pc' # pc)
          => value' = value /\ uvalue' = uvalue
       /\ (pc \in {"encoded", "uencoded"} /\ pc' \in {"decoded", "udecoded"})
          => buffer' = buffer]_vars

\* a many-word value encoded into a 0xff-filled buffer one byte longer than
\* needed: the byte after the encoding still holds 0xff
C18_Witness ==
    /\ pc = "encoded" /\ encRes.ok /\ Len(value) >= 2
    /\ encRes.byteCount = sizeRes /\ Len(buffer) = sizeRes + 1
    /\ buffer[Len(buffer)] = 255

\* C19: independence of concurrent calls: however the steps of the calls are
\* interleaved, every call that has returned has the result, and has left the
\* buffer contents, it has when run alone; the tables all calls read are as
\* they were at the start.
C19_Independent ==
    /\ tables = PackageTables
    /\ \A i \in 1 .. Len(procs) :
          procs[i].status = "done"
             => /\ procs[i].enc = Alone(arch, procs[i].call).enc
                /\ procs[i].dec = Alone(arch, procs[i].call).dec

\* an Encode of a two-word value has returned ok while a second Encode is
\* between two words, with leftover bits in its accumulator
C19_Witness ==
    /\ pc = "calls"
    /\ procs[1].call.kind = "enc" /\ procs[1].status = "done" /\ procs[1].enc.ok
    /\ procs[2].call.kind = "enc" /\ procs[2].status = "run" /\ procs[2].loc.i = 2
    /\ procs[2].loc.st.accum # {}

\* C20: ten-byte bound: for every uint64 EncodedSizeUint64 is in 1..10;
\* EncodeUint64 leaves every byte from index 10 on as it was, and
\* EncodeUint64ToBytes stays inside its 10-byte buffer (no store out of
\* range); the length 10 is reached exactly for values of 2^63 and more,
\* whose tenth byte is 0x01.
C20_TenBytes ==
    /\ pc \in {"tsized", "tready", "tencoded"}
          => /\ sizeRes \in 1 .. MaxBufferWriteBytes
             /\ (sizeRes = MaxBufferWriteBytes) <=> (UintBits - 1 \in uvalue)
    /\ pc = "tencoded"
          => /\ encRes.ok /\ encRes.byteCount = sizeRes
             /\ Len(encRes.buffer) = Len(buffer)
             /\ \A i \in (MaxBufferWriteBytes + 1) .. Len(buffer) : encRes.buffer[i] = buffer[i]
             /\ ~outputs[1].panicked
             /\ outputs[1].byteCount = sizeRes
             /\ (UintBits - 1 \in uvalue)
                   => /\ encRes.buffer[MaxBufferWriteBytes] = 1
                      /\ outputs[1].buffer[MaxBufferWriteBytes] = 1

\* the largest uint64: ten bytes from both encoders, the eleventh byte of the
\* caller's 0xff-filled buffer untouched
C20_Witness ==
    /\ pc = "tencoded" /\ uvalue = 0 .. (UintBits - 1)
    /\ encRes.byteCount = MaxBufferWriteBytes /\ outputs[1].byteCount = MaxBufferWriteBytes
    /\ Len(buffer) > MaxBufferWriteBytes /\ encRes.buffer[MaxBufferWriteBytes + 1] = 255
    /\ outputs[1].buffer[1] = 255

\* C21: MaxBufferWriteBytes: EncodeToBytes writes at most 10 bytes for every
\* big.Int, so on a buffer of 10 bytes it never stores out of range.
C21_TenIsEnough ==
    pc \in {"tobytes", "streamed"}
       => /\ ~encRes.panicked
          /\ encRes.byteCount <= MaxBufferWriteBytes

C23_Vectors ==
    /\ {Vec(BitsOfNat(104543565, 0), <<205, 234, 236, 49>>),
        Vec(0 .. 63, <<255, 255, 255, 255, 255, 255, 255, 255, 255, 1>>),
        Vec({64}, <<128, 128, 128, 128, 128, 128, 128, 128, 128, 2>>)} \subseteq Vectors
    /\ pc \in {"vencoded", "vdecoded"}
          => /\ encRes.ok
             /\ encRes.byteCount = Len(stream[1].bytes)
             /\ encRes.buffer = stream[1].bytes
    /\ pc = "vdecoded"
          => /\ decRes.ok
             /\ decRes.byteCount = Len(stream[1].bytes)
             /\ DecodedBits(arch, decRes) = stream[1].bits

\* 104543565 on a 32-bit build: four bytes out, the number back in asUint
C23_Witness ==
    /\ pc = "vdecoded" /\ arch = 32
    /\ buffer = <<205, 234, 236, 49>>
    /\ decRes.asBigInt.isNil
    /\ decRes.asUint = BitsOfNat(104543565, 0)

\* C24: table step index: at the start of every word the step index of
\* encode32 / encode64 is in 0..13, is a valid index into the 14-entry tables
\* and equals (2 * number of words already processed) mod 14; no table is
\* ever read out of range.
C24_StepIndex ==
    \A i \in 1 .. Len(procs) :
       /\ ~procs[i].enc.panicked
       /\ (procs[i].call.kind = "enc" /\ procs[i].status = "run")
             => /\ procs[i].loc.st.shiftIndex \in 0 .. 13
                /\ InRange(groupCounts(arch), procs[i].loc.st.shiftIndex)
                /\ InRange(rightShifts(arch), procs[i].loc.st.shiftIndex)
                /\ procs[i].loc.st.shiftIndex = (2 * (procs[i].loc.i - 1)) % 14

\* the bit-by-bit reference encoder: byte j (from 0) of the encoding of bits
RefGroups(bits) == Max(1, (BitLength(bits) + 6) \div 7)
RefPayload(bits, j) == SumPow2({b - 7 * j : b \in {c \in bits : c \div 7 = j}})
RefByte(bits, j) ==
    RefPayload(bits, j) + (IF j + 1 < RefGroups(bits) THEN continuationMask ELSE 0)
RefEncoding(bits) == [j \in 1 .. RefGroups(bits) |-> RefByte(bits, j - 1)]

\* half-words done by a running half-word call, and the bits they hold
HalvesDone(p) == 2 * (p.loc.i - 1) + p.loc.half
HalfBits(a) == wordSize(a) \div 2
\* bits left over before step s (the remain column of step s - 1, 0 at step 0)
Leftover(a, s) == IF s = 0 THEN 0 ELSE remain(a)[s]

\* C25: encoder accumulator invariant: before each of the steps 0..13 the
\* accumulator holds exactly the leftover bits of the previous step (the
\* remain column, fewer than 7); the shifted half-word lands exactly above
\* them and inside the word; flushing groupCounts[s] groups leaves remain[s]
\* bits, 0 after step 13; the bytes written so far, and the whole output of a
\* call that returns, are those of the bit-by-bit reference encoder.
C25_Accumulator ==
    LET p == procs[1]
        a == arch
        st == p.loc.st
        s == st.shiftIndex
        k == HalvesDone(p)
        consumed == k * HalfBits(a)
        left == Leftover(a, s)
    IN /\ (p.status = "run" /\ k <= 14 /\ s <= 13)
             => /\ s = k % 14
                /\ left < 7
                /\ st.accum = {b - (consumed - left) :
                                  b \in {c \in p.call.bits : c >= consumed - left /\ c < consumed}}
                /\ 7 * st.bufferPos = consumed - left
                /\ \A j \in 1 .. st.bufferPos :
                      st.buffer[j] = ByteOf(BitsOfByte(RefByte(p.call.bits, j - 1))
                                               \cup BitsOfByte(continuationMask))
                /\ IF p.loc.half = 0
                   THEN /\ (IF is32Bit(a) THEN At(leftShifts32, s) ELSE s \div 2) = left
                        /\ left + HalfBits(a) <= wordSize(a)
                   ELSE HalfBits(a) - At(rightShifts(a), s) = left
                /\ left + HalfBits(a) - 7 * At(groupCounts(a), s) = remain(a)[s + 1]
                /\ remain(a)[s + 1] \in 0 .. 6
                /\ remain(a)[14] = 0
       /\ (p.status = "done" /\ p.enc.ok)
             => /\ p.enc.buffer = RefEncoding(p.call.bits)
                /\ p.enc.byteCount = RefGroups(p.call.bits)

\* before step 13 of the 32-bit tables, with five leftover bits in accum
C25_Witness ==
    /\ arch = 32 /\ procs[1].status = "run"
    /\ procs[1].loc.st.shiftIndex = 13 /\ procs[1].loc.half = 1
    /\ procs[1].loc.st.accum = 0 .. 4

\* C26: decoder accumulator invariant: after the seeding and after every
\* byte, 0 <= bitIndex < word width, and the completed words followed by the
\* accumulator word are the number (preValue mod 2^preBitCount) + the sum of
\* the payloads consumed so far, each shifted by preBitCount + 7*i.
C26_DecoderAccumulator ==
    \A i \in 1 .. Len(procs) :
       (procs[i].call.kind = "dec" /\ procs[i].status = "run")
          => LET l == procs[i].loc
                 c == procs[i].call
             IN /\ l.bitIndex >= 0 /\ l.bitIndex < wordSize(arch)
                /\ l.word \subseteq 0 .. (wordSize(arch) - 1)
                /\ \A j \in 1 .. Len(l.words) : l.words[j] \subseteq 0 .. (wordSize(arch) - 1)
                /\ Len(l.words) * wordSize(arch) + l.bitIndex = Min(c.pbc, UintBits) + 7 * l.index
                /\ BitsOfWords(Append(l.words, l.word), wordSize(arch))
                      = (c.pv \cap (0 .. (c.pbc - 1))) \cup PayloadSum(c.buf, l.index, c.pbc)

\* 32-bit build, a seed of 33 bits (one whole word and one bit), five bytes
\* read: the fifth straddled the boundary between the second and third word
C26_Witness ==
    /\ arch = 32 /\ procs[1].call.kind = "dec" /\ procs[1].status = "run"
    /\ procs[1].call.pbc = 33 /\ procs[1].loc.index = 5
    /\ Len(procs[1].loc.words) = 2 /\ procs[1].loc.bitIndex = 4
    /\ procs[1].loc.word # {}

\* passes of the encoder's flush loops so far: one per byte stored, and the
\* pass that found the buffer full
FlushPasses(p) ==
    IF p.loc.st.status = "done" THEN p.loc.st.byteCount
    ELSE IF p.loc.st.status = "full" THEN p.loc.st.bufferPos + 1
    ELSE p.loc.st.bufferPos

\* passes of Decode's seeding loop
SeedPasses(a, c) ==
    Len(seedWords(a, <<>>, c.pv \cap maskForBitCount(Min(c.pbc, MaxPreBitCount)),
                  Min(c.pbc, MaxPreBitCount)).words)

Returned(p) == p.status = "done" /\ ~p.enc.panicked

\* a variant of the loops: the passes a call can still make, counted in the
\* steps of its loop (bits to count, words to encode, groups to store, bytes
\* to read), and one for each exit
PassesLeft(a, p) ==
    LET c == p.call
    IN IF p.status = "done" THEN 0
       ELSE IF c.kind = "enc"
       THEN IF p.status = "new" THEN Len(WordsOfBits(c.bits, wordSize(a))) + 2
            ELSE Len(WordsOfBits(c.bits, wordSize(a))) - p.loc.i + 1
       ELSE IF c.kind = "uenc"
       THEN IF p.status = "new" THEN UintBits + 2 ELSE BitLength(p.loc.v) + 1
       ELSE IF p.status = "new" THEN Len(c.buf) + 2 ELSE Len(c.buf) - p.loc.index + 1
Variant ==
    IF pc = "sizing" THEN PassesLeft(arch, procs[1]) + BitLength(uvalue) + 1
    ELSE PassesLeft(arch, procs[1])

\* C27: termination: every call reaches its return: each pass of a loop
\* lowers a variant that is never negative, and a call that makes no further
\* step has returned; the flush loops of Encode make at most
\* min(len(buffer) + 1, EncodedSize(V)) passes overall, Decode's seeding loop
\* at most 2, Decode's byte loop at most len(buffer); the counting loop of the
\* size functions ends with the size of the value.
C27_Termination ==
    /\ [][Variant' < Variant /\ Variant' >= 0]_vars
    /\ [](LET p == procs[1]
              c == p.call
          IN /\ p.status = "done" => Returned(p)
             /\ (c.kind = "enc" /\ p.status # "new")
                   => FlushPasses(p)
                         <= Min(Len(c.buf) + 1,
                                EncodedSize(arch, WordsOfBits(c.bits, wordSize(arch))))
             /\ c.kind = "dec"
                   => SeedPasses(arch, c) <= 2 /\ p.loc.index <= Len(c.buf)
             /\ (pc = "calls" /\ c.kind = "enc")
                   => sizeRes = EncodedSize(arch, WordsOfBits(c.bits, wordSize(arch)))
             /\ (pc = "calls" /\ c.kind = "uenc") => sizeRes = EncodedSizeUint64(c.bits))

\* C28: state after a failed encode: when Encode or EncodeUint64 returns
\* ok = false on a buffer of length n below the encoded size, byteCount is 0
\* and the n bytes of the buffer are the first n bytes of the canonical
\* encoding of the value (n is below its length, so each is a group of seven
\* bits with the continuation flag set).
C28_FailedEncode ==
    (EncodeReturned /\ ~encRes.ok /\ Len(buffer) < sizeRes)
       => LET bits == ArgBits
          IN /\ encRes.byteCount = 0
             /\ Len(buffer) < RefGroups(bits)
             /\ \A i \in 1 .. Len(buffer) :
                   /\ buffer[i] = RefPayload(bits, i - 1) + continuationMask
                   /\ hasContinuation(buffer[i])

C28_Witness ==
    /\ pc = "encoded" /\ ~encRes.ok /\ encRes.byteCount = 0
    /\ Len(value) >= 2 /\ Len(buffer) >= 10 /\ Len(buffer) < sizeRes
    /\ \E i, j \in 1 .. Len(buffer) : buffer[i] # buffer[j]

\* C29: reverse round trip on canonical bytes: for a canonical encoding B of
\* a value v below 2^64 (1 .. 10 bytes), Decode(0, 0, B) returns ok = true,
\* asUint = v and byteCount = len(B), and EncodeUint64(v) into a buffer of
\* len(B) bytes returns ok = true and reproduces B byte for byte.
C29_ReverseRoundTrip ==
    /\ pc \in {"cdecoded", "cencoded"}
          => /\ decRes.ok
             /\ decRes.byteCount = Len(buffer)
             /\ decRes.asUint = PayloadSum(buffer, Len(buffer), 0)
    /\ pc = "cencoded"
          => /\ encRes.ok
             /\ encRes.byteCount = Len(buffer)
             /\ encRes.buffer = buffer

C29_Witness ==
    /\ pc = "cencoded" /\ Len(buffer) = MaxCanonBytes /\ buffer[MaxCanonBytes] = 1
    /\ 63 \in decRes.asUint /\ 7 \in decRes.asUint /\ 6 \notin decRes.asUint
    /\ encRes.ok /\ encRes.buffer = buffer

====
